---------------------------- MODULE Spec2Model ----------------------------
(* A model of the FigWizz image toolkit: the opacity flattener             *)
(* (figwizz/modify.py) and the conversion routines (figwizz/convert.py).   *)
(*                                                                         *)
(* It also covers the env-file loader (figwizz/utils/environ.py), image    *)
(* generation (figwizz/generate.py), the PDF test of figwizz/webkit.py and *)
(* the icon workflow (figwizz/workflows/icons.py).                         *)
(*                                                                         *)
(* Python objects live in a heap (a sequence of bitmaps, an object's id is *)
(* its index), the file system is a function from the existing paths to   *)
(* file contents, and strings are sequences of tokens so that split('.'),  *)
(* startswith, lower/upper and slicing are computed, not assumed.          *)
EXTENDS Integers, Sequences, FiniteSets, TLC

VARIABLES
    heap,     \* the bitmaps the caller holds, by object id
    fs,       \* the file system: existing path -> file content
    call,     \* the last call made: operation and arguments
    ret,      \* how the last call ended: a return value or a raised exception
    log,      \* what the last call did to its collaborators, in order
    ncalls,   \* number of calls made so far
    made,     \* ids of the caller's bitmaps that make_image_opaque returned
    environ,  \* the process environment (os.environ): name -> value
    gen       \* generate_images in progress: its position and local variables

vars == <<heap, fs, call, ret, log, ncalls, made, environ, gen>>

(***************************************************************************)
(* Bounds of the model.                                                    *)
(***************************************************************************)
MaxPixels == 2      \* a bitmap has at most this many pixels (width * height)
MaxCalls == 2       \* calls made in one behaviour
MaxBytes == 3       \* length of the byte strings handed to bytes_to_image

(***************************************************************************)
(* Bitmaps.  A mode is the sequence of its letters, so that mode[:-1] is a *)
(* slice.  A pixel is the sequence of its band values.                     *)
(***************************************************************************)
ModeL == <<"L">>
ModeLA == <<"L", "A">>
ModeP == <<"P">>
ModeRGB == <<"R", "G", "B">>
ModeRGBA == <<"R", "G", "B", "A">>

Modes == {ModeL, ModeLA, ModeP, ModeRGB, ModeRGBA}

\* the colours the test fixtures use, and black/white
Colors == {<<0, 0, 0>>, <<255, 255, 255>>, <<255, 0, 0>>, <<0, 255, 0>>}
Grays == {0, 128, 255}
Alphas == {0, 128, 255}

\* the palette of an indexed bitmap (two entries)
Palette == <<(<<0, 0, 0>>), (<<255, 0, 0>>)>>

PixelsOf(mode) ==
    IF mode = ModeL THEN {<<g>> : g \in Grays}
    ELSE IF mode = ModeLA THEN {<<g, a>> : g \in Grays, a \in Alphas}
    ELSE IF mode = ModeP THEN {<<i>> : i \in 0..(Len(Palette) - 1)}
    ELSE IF mode = ModeRGB THEN Colors
    ELSE {c \o <<a>> : c \in Colors, a \in Alphas}

Sizes == {s \in (1..MaxPixels) \X (1..MaxPixels) : s[1] * s[2] <= MaxPixels}

\* PIL keeps 'transparency' in img.info for palette, grayscale and RGB PNGs
\* that carry a tRNS chunk; alpha modes have a real alpha band instead.
Bitmaps ==
    UNION {
        { [mode |-> m, size |-> s, trns |-> t, px |-> p] :
            t \in (IF m \in {ModeLA, ModeRGBA} THEN {FALSE} ELSE BOOLEAN),
            p \in [1..(s[1] * s[2]) -> PixelsOf(m)] }
        : m \in Modes, s \in Sizes }

\* an empty mapping (dict); the state of the parts a specification leaves out
EmptyMap == [k \in {} |-> <<>>]
NoEnviron == EmptyMap
NoGen == [pc |-> "none"]

NoRet == [kind |-> "none", id |-> 0, exc |-> "", val |-> <<>>]
Returned(id) == [kind |-> "ok", id |-> id, exc |-> "", val |-> <<>>]
ReturnedVal(v) == [kind |-> "ok", id |-> 0, exc |-> "", val |-> v]
Raised(e) == [kind |-> "raise", id |-> 0, exc |-> e, val |-> <<>>]

(***************************************************************************)
(* The imaging library, as make_image_opaque uses it.                      *)
(***************************************************************************)

\* Image.new(mode, size, color): the mode must be one the library knows, and
\* a single-band mode takes an int (or 1-tuple) colour, not an RGB triple.
ImageNew(h, mode, size, color) ==
    IF mode \notin Modes
    THEN [heap |-> h, ret |-> Raised("ValueError")]
    ELSE IF Len(mode) = 1 /\ Len(color) # 1
    THEN [heap |-> h, ret |-> Raised("TypeError")]
    ELSE LET fill == IF mode = ModeLA THEN <<color[1], 255>>
                     ELSE IF mode = ModeRGBA THEN color \o <<255>>
                     ELSE color
             im == [mode |-> mode, size |-> size, trns |-> FALSE,
                    px |-> [i \in 1..(size[1] * size[2]) |-> fill]]
         IN [heap |-> Append(h, im), ret |-> Returned(Len(h) + 1)]

\* copy(img_input): Image.__copy__ is Image.copy, a new object, same pixels
CopyImage_alias(h, id) == [heap |-> h, ret |-> Returned(id)]

CopyImage(h, id) == [heap |-> Append(h, h[id]), ret |-> Returned(Len(h) + 1)]

\* img.split()[-1]: the last band of every pixel
LastBand(im) == [i \in 1..Len(im.px) |-> im.px[i][Len(im.px[i])]]

\* Paste.c: BLEND8(mask, in1, in2) = DIV255(in1 * (255 - mask) + in2 * mask)
Blend8(mask, in1, in2) ==
    LET tmp == in1 * (255 - mask) + in2 * mask + 128
    IN ((tmp \div 256) + tmp) \div 256

\* one pixel of background.paste(img, mask): the colour bands of src over dst
PastePixel(dst, src, mask) ==
    [b \in 1..Len(dst) |->
        IF mask = 0 THEN dst[b]
        ELSE IF mask = 255 THEN src[b]
        ELSE Blend8(mask, dst[b], src[b])]

\* background.paste(img, mask): changes the background object in place
Paste(h, bg, img, mask) ==
    [h EXCEPT ![bg].px =
        [i \in 1..Len(h[bg].px) |-> PastePixel(h[bg].px[i], h[img].px[i], mask[i])]]

\* img.convert('RGB'): L -> (g,g,g), P -> palette lookup, RGBA/LA -> alpha
\* band dropped (no compositing); info['transparency'] is not kept
ToRGB(mode, p) ==
    IF mode = ModeL \/ mode = ModeLA THEN <<p[1], p[1], p[1]>>
    ELSE IF mode = ModeP THEN Palette[p[1] + 1]
    ELSE <<p[1], p[2], p[3]>>

ConvertRGB_keepAlpha(im) ==
    IF im.mode = ModeRGBA
    THEN [im EXCEPT !.px = [i \in 1..Len(im.px) |->
            PastePixel(<<255, 255, 255>>, im.px[i], im.px[i][4]) \o <<im.px[i][4]>>]]
    ELSE [mode |-> ModeRGB, size |-> im.size, trns |-> FALSE,
          px |-> [i \in 1..Len(im.px) |-> ToRGB(im.mode, im.px[i])]]

ConvertRGB(im) ==
    [mode |-> ModeRGB, size |-> im.size, trns |-> FALSE,
     px |-> [i \in 1..Len(im.px) |-> ToRGB(im.mode, im.px[i])]]

(***************************************************************************)
(* Files.  A file's content is the format its bytes are encoded in and the *)
(* picture they hold; PNG is lossless, so decoding a PNG gives back the    *)
(* bitmap that was saved.                                                  *)
(***************************************************************************)
NoImage == [mode |-> <<>>, size |-> <<0, 0>>, trns |-> FALSE, px |-> <<>>]

RasterFormats == {"PNG", "JPEG"}

Exists(f, p) == p \in DOMAIN f
WriteFile(f, p, c) == [q \in (DOMAIN f) \cup {p} |-> IF q = p THEN c ELSE f[q]]
RemoveFile(f, p) == [q \in (DOMAIN f) \ {p} |-> f[q]]

\* Image.open(path): identifies the file by its content, not by its name
ImageOpen(h, f, path) ==
    IF ~Exists(f, path)
    THEN [heap |-> h, ret |-> Raised("FileNotFoundError")]
    ELSE IF f[path].fmt \notin RasterFormats
    THEN [heap |-> h, ret |-> Raised("UnidentifiedImageError")]
    ELSE [heap |-> Append(h, f[path].img), ret |-> Returned(Len(h) + 1)]

(***************************************************************************)
(* figwizz/modify.py                                                       *)
(***************************************************************************)
Str(s) == [t |-> "str", v |-> s]
Img(id) == [t |-> "Image", v |-> id]

\* img.mode[:-1]
ModeMinusLast(mode) == SubSeq(mode, 1, Len(mode) - 1)

\* img.mode in ('RGBA', 'LA') or ('transparency' in img.info)
HasAlpha(im) == im.mode \in {ModeRGBA, ModeLA} \/ im.trns

\* make_image_opaque(img_input, bg_color): the heap after the call and how
\* it ended.  The composite is built in `background` and bound to `image`;
\* the function goes on with, and returns, `img`.
make_image_opaque(h, f, img_input, bg_color) ==
    LET o == IF img_input.t = "str" THEN ImageOpen(h, f, img_input.v)
             ELSE CopyImage(h, img_input.v)
    IN  IF o.ret.kind = "raise" THEN o
        ELSE
        LET img == o.ret.id
            h1 == o.heap
            n == IF HasAlpha(h1[img])
                 THEN ImageNew(h1, ModeMinusLast(h1[img].mode), h1[img].size, bg_color)
                 ELSE [heap |-> h1, ret |-> NoRet]
        IN  IF n.ret.kind = "raise" THEN [heap |-> h, ret |-> n.ret]
            ELSE
            LET h2 == IF HasAlpha(h1[img])
                      THEN Paste(n.heap, n.ret.id, img, LastBand(h1[img]))
                      ELSE h1
            IN  IF h2[img].mode # ModeRGB
                THEN [heap |-> Append(h2, ConvertRGB(h2[img])),
                      ret |-> Returned(Len(h2) + 1)]
                ELSE [heap |-> h2, ret |-> Returned(img)]

\* What the caller can still reach after a call: its own objects, and the
\* returned object when that is a new one; the call's temporaries are freed.
Collect(old, r) ==
    IF r.ret.kind = "ok" /\ r.ret.id > Len(old)
    THEN [heap |-> Append(SubSeq(r.heap, 1, Len(old)), r.heap[r.ret.id]),
          ret |-> Returned(Len(old) + 1)]
    ELSE [heap |-> SubSeq(r.heap, 1, Len(old)), ret |-> r.ret]

(***************************************************************************)
(* SpecOpaque: a caller holding one bitmap, optionally saved to disk as    *)
(* the fixtures do, calls make_image_opaque on bitmaps it holds (results   *)
(* of earlier calls included) and on paths.                                *)
(***************************************************************************)
White == <<255, 255, 255>>
Red == <<255, 0, 0>>
BgColors == {White, Red}      \* the default, and the tests' custom colour

PathA == <<"a", ".", "png">>        \* where the fixture is saved
PathMissing == <<"b", ".", "png">>  \* never created
OpaquePaths == {PathA, PathMissing}

NoCall == [op |-> "none"]
EmptyFs == [q \in {} |-> NoImage]

InitOpaque ==
    /\ heap \in {<<b>> : b \in Bitmaps}
    /\ fs = EmptyFs
    /\ call = NoCall
    /\ ret = NoRet
    /\ log = <<>>
    /\ ncalls = 0
    /\ made = {}
    /\ environ = NoEnviron
    /\ gen = NoGen

\* conftest.sample_image_path: the caller's bitmap saved as a PNG file
SaveFixture ==
    /\ ncalls = 0
    /\ ~Exists(fs, PathA)
    /\ fs' = WriteFile(fs, PathA, [fmt |-> "PNG", img |-> heap[1]])
    /\ UNCHANGED <<heap, call, ret, log, ncalls, made, environ, gen>>

OpaqueCall(img_input, bg_color) ==
    LET r == Collect(heap, make_image_opaque(heap, fs, img_input, bg_color))
    IN  /\ ncalls < MaxCalls
        /\ heap' = r.heap
        /\ ret' = r.ret
        /\ call' = [op |-> "make_image_opaque", arg |-> img_input, bg |-> bg_color]
        /\ made' = IF r.ret.kind = "ok" THEN made \cup {r.ret.id} ELSE made
        /\ ncalls' = ncalls + 1
        /\ UNCHANGED <<fs, log, environ, gen>>

OpaqueOnBitmap == \E id \in 1..Len(heap), bg \in BgColors : OpaqueCall(Img(id), bg)

OpaqueOnPath == \E p \in OpaquePaths, bg \in BgColors : OpaqueCall(Str(p), bg)

NextOpaque == SaveFixture \/ OpaqueOnBitmap \/ OpaqueOnPath

SpecOpaque == InitOpaque /\ [][NextOpaque]_vars

(***************************************************************************)
(* Claims about make_image_opaque (SpecOpaque).                            *)
(***************************************************************************)
OpaqueOnImage == call.op = "make_image_opaque" /\ call.arg.t = "Image"

\* the bitmap the last call was given (the caller still holds it)
ArgImage == heap[call.arg.v]

\* the five bitmap modes of the data model: grayscale, RGB, RGB+alpha,
\* grayscale+alpha, indexed-with-transparency
InDataModel(im) ==
    \/ im.mode \in {ModeL, ModeRGB} /\ ~im.trns
    \/ im.mode \in {ModeRGBA, ModeLA}
    \/ im.mode = ModeP /\ im.trns

\* C1: for an input whose mode carries alpha, each output pixel is the source
\* pixel blended over bg_color with the source's own alpha; so a fully
\* transparent source pixel comes out as exactly bg_color.
C1_CompositedOverBg ==
    (OpaqueOnImage /\ ret.kind = "ok" /\ ArgImage.mode = ModeRGBA) =>
        \A i \in 1..Len(ArgImage.px) :
            heap[ret.id].px[i] =
                PastePixel(call.bg, ArgImage.px[i], ArgImage.px[i][4])

\* C2: for every bitmap mode and the default bg_color the call returns a
\* bitmap of the input's size whose mode carries no alpha or transparency
\* (RGB for RGBA and RGB inputs).
C2_ReturnsOpaqueForEveryMode ==
    (OpaqueOnImage /\ call.bg = White /\ InDataModel(ArgImage)) =>
        /\ ret.kind = "ok"
        /\ heap[ret.id].size = ArgImage.size
        /\ ~HasAlpha(heap[ret.id])
        /\ (ArgImage.mode \in {ModeRGB, ModeRGBA} => heap[ret.id].mode = ModeRGB)

\* C3: flattening is idempotent: a call whose argument is the bitmap an
\* earlier call returned returns a bitmap equal to its argument in mode,
\* size and every pixel, for any bg_color of either call.
C3_Idempotent ==
    (OpaqueOnImage /\ call.arg.v \in made /\ call.arg.v # ret.id) =>
        /\ ret.kind = "ok"
        /\ heap[ret.id] = ArgImage

\* the second flattening of a bitmap that had a partly transparent pixel
C3_Witness ==
    /\ OpaqueOnImage /\ call.arg.v \in made /\ ret.kind = "ok"
    /\ ret.id # call.arg.v
    /\ heap[1].mode = ModeRGBA
    /\ \E i \in 1..Len(heap[1].px) : heap[1].px[i][4] = 128

\* C4: a call on a bitmap leaves every bitmap of the caller as it was (mode,
\* size, pixels), the argument included, and returns an object that is not
\* the argument, also when the input has no alpha and is passed through.
C4_ArgumentUntouchedResultDistinct ==
    [][ (ncalls' = ncalls + 1 /\ call'.op = "make_image_opaque"
            /\ call'.arg.t = "Image") =>
          /\ \A id \in 1..Len(heap) : heap'[id] = heap[id]
          /\ (ret'.kind = "ok" => ret'.id # call'.arg.v /\ ret'.id > Len(heap)) ]_vars

\* a bitmap without alpha was passed through, as a new object
C4_Witness ==
    /\ OpaqueOnImage /\ ret.kind = "ok"
    /\ ArgImage.mode = ModeRGB /\ ~ArgImage.trns
    /\ ret.id # call.arg.v
    /\ heap[ret.id] = ArgImage

(***************************************************************************)
(* Strings.  A string is a sequence of tokens: "." and indivisible names.  *)
(***************************************************************************)
Dot == "."

\* str.lower() and str.upper() on one token
LowerTok(t) ==
    CASE t \in {"png", "PNG"} -> "png"
      [] t \in {"jpg", "JPG", "Jpg"} -> "jpg"
      [] t \in {"jpeg", "JPEG"} -> "jpeg"
      [] t \in {"pdf", "PDF", "Pdf"} -> "pdf"
      [] t \in {"svg", "SVG"} -> "svg"
      [] t \in {"txt", "TXT"} -> "txt"
      [] t \in {"a", "A"} -> "a"
      [] t \in {"the", "The"} -> "the"
      [] OTHER -> t

UpperTok(t) ==
    CASE t \in {"png", "PNG"} -> "PNG"
      [] t \in {"jpg", "JPG", "Jpg"} -> "JPG"
      [] t \in {"jpeg", "JPEG"} -> "JPEG"
      [] t \in {"pdf", "PDF", "Pdf"} -> "PDF"
      [] t \in {"svg", "SVG"} -> "SVG"
      [] t \in {"txt", "TXT"} -> "TXT"
      [] t = "a" -> "A"
      [] t = "out" -> "OUT"
      [] OTHER -> t

Lower(s) == [i \in 1..Len(s) |-> LowerTok(s[i])]
Upper(s) == [i \in 1..Len(s) |-> UpperTok(s[i])]

\* index of the last "." of s, 0 when there is none
LastDot(s) ==
    LET dots == {i \in 1..Len(s) : s[i] = Dot}
    IN IF dots = {} THEN 0 ELSE CHOOSE i \in dots : \A j \in dots : j <= i

\* s.split('.')[-1]
SplitLast(s) == SubSeq(s, LastDot(s) + 1, Len(s))

\* s.startswith('.')
StartsWithDot(s) == Len(s) > 0 /\ s[1] = Dot

\* os.path.splitext(s)[0]: up to the last dot, unless only dots precede it
SplitextRoot(s) ==
    IF LastDot(s) = 0 \/ (\A i \in 1..LastDot(s) : s[i] = Dot)
    THEN s
    ELSE SubSeq(s, 1, LastDot(s) - 1)

(***************************************************************************)
(* figwizz/convert.py: svg_to_image                                        *)
(***************************************************************************)
\* what `import cairosvg` can do: succeed, fail because the package is not
\* installed, or fail with OSError because the native cairo library is not
\* found (the case test_svg_to_image guards against)
ImportOutcomes == {"ok", "ImportError", "OSError"}

\* whether the environment lets a conversion of well-formed markup finish
ConvOutcomes == {"ok", "error"}

Event(e, a) == [ev |-> e, arg |-> a]

\* ['png', 'jpg', 'jpeg', 'pdf']
AcceptedExts == {<<"png">>, <<"jpg">>, <<"jpeg">>, <<"pdf">>}

\* output_path.split('.')[-1] in ['png', 'jpg', 'jpeg', 'pdf']
OutputExtAccepted_any(output_path) == TRUE

OutputExtAccepted(output_path) == SplitLast(output_path) \in AcceptedExts

\* cairosvg.svg2png(bytestring=svg_content, write_to=output_path): raises
\* unless the content is well-formed SVG markup (bytes) and the write goes
\* through; it then writes the rendering as PNG data, whatever the path's name
Svg2Png(f, svg_content, output_path, conv) ==
    IF svg_content.t = "bytes" /\ svg_content.svg /\ conv = "ok"
    THEN [fs |-> WriteFile(f, output_path, [fmt |-> "PNG", img |-> svg_content.pic]),
          raised |-> FALSE]
    ELSE [fs |-> f, raised |-> TRUE]

\* svg_to_image(svg_content, output_path), width, height and scale left None
svg_to_image(f, svg_content, output_path, imp, conv) ==
    IF ~OutputExtAccepted(output_path)
    THEN [fs |-> f, ret |-> Raised("ValueError"), log |-> <<>>]
    ELSE IF imp = "ImportError"
    THEN [fs |-> f, ret |-> ReturnedVal(FALSE),
          log |-> <<Event("import", imp)>>]
    ELSE IF imp # "ok"
    THEN [fs |-> f, ret |-> Raised(imp), log |-> <<Event("import", imp)>>]
    ELSE LET c == Svg2Png(f, svg_content, output_path, conv)
         IN [fs |-> c.fs, ret |-> ReturnedVal(~c.raised),
             log |-> <<Event("import", imp),
                       Event("svg2png", IF c.raised THEN "raised" ELSE "completed")>>]

(***************************************************************************)
(* SpecSvg: calls of svg_to_image with markup, malformed bytes or a value  *)
(* that is no byte string, to paths with and without accepted extensions,  *)
(* in every environment (rasterizer importable or not).                    *)
(***************************************************************************)
\* the rendering of the fixtures' markup (cairo surfaces are ARGB)
SvgPictures ==
    {b \in Bitmaps : b.mode = ModeRGBA /\ b.size = <<1, 1>>
                     /\ b.px[1] \in {<<255, 0, 0, 255>>, <<0, 255, 0, 128>>}}

SvgContents ==
    {[t |-> "bytes", svg |-> TRUE, pic |-> b] : b \in SvgPictures}
    \cup {[t |-> "bytes", svg |-> FALSE, pic |-> NoImage],
          [t |-> "Image", svg |-> FALSE, pic |-> NoImage]}

OutPaths ==
    {<<"out", Dot, e>> : e \in {"png", "jpg", "jpeg", "pdf", "txt", "svg", "PNG"}}
    \cup {<<"out">>, <<"out", Dot, "txt", Dot, "png">>, <<"out", Dot, "png", Dot, "txt">>}

InitSvg ==
    /\ heap = <<>>
    /\ fs \in {EmptyFs,
               WriteFile(EmptyFs, <<"out", Dot, "txt">>, [fmt |-> "TXT", img |-> NoImage])}
    /\ call = NoCall
    /\ ret = NoRet
    /\ log = <<>>
    /\ ncalls = 0
    /\ made = {}
    /\ environ = NoEnviron
    /\ gen = NoGen

SvgToImage ==
    \E c \in SvgContents, p \in OutPaths, imp \in ImportOutcomes, conv \in ConvOutcomes :
        LET r == svg_to_image(fs, c, p, imp, conv)
        IN  /\ ncalls < MaxCalls
            /\ fs' = r.fs
            /\ ret' = r.ret
            /\ log' = r.log
            /\ call' = [op |-> "svg_to_image", svg_content |-> c, output_path |-> p,
                        imp |-> imp, conv |-> conv]
            /\ ncalls' = ncalls + 1
            /\ UNCHANGED <<heap, made, environ, gen>>

NextSvg == SvgToImage

SpecSvg == InitSvg /\ [][NextSvg]_vars

SvgCalled == call.op = "svg_to_image"

\* C8: for an output path with an accepted extension svg_to_image never
\* raises; it returns False when cairosvg cannot be imported or when the
\* conversion raises, and True only when the conversion call completed.
C8_SoftFailure ==
    (SvgCalled /\ SplitLast(call.output_path) \in AcceptedExts) =>
        /\ ret.kind = "ok"
        /\ (call.imp # "ok" => ret.val = FALSE)
        /\ (Event("svg2png", "raised") \in {log[i] : i \in 1..Len(log)} => ret.val = FALSE)
        /\ (ret.val = TRUE <=>
                Event("svg2png", "completed") \in {log[i] : i \in 1..Len(log)})

\* C9: an output path whose extension (the text after its last dot) is not
\* png, jpg, jpeg or pdf is rejected with ValueError before the rasterizer is
\* imported and with no file written.
C9_RejectsBeforeImport ==
    [][ (ncalls' = ncalls + 1 /\ call'.op = "svg_to_image"
            /\ SplitLast(call'.output_path) \notin AcceptedExts) =>
          /\ ret' = Raised("ValueError")
          /\ log' = <<>>
          /\ fs' = fs ]_vars

\* well-formed markup, an importable rasterizer, and a .txt output path
C9_Witness ==
    /\ SvgCalled
    /\ call.output_path = <<"out", Dot, "txt">>
    /\ call.svg_content.svg /\ call.imp = "ok" /\ call.conv = "ok"
    /\ ret = Raised("ValueError")
    /\ log = <<>>

\* the encoding an extension names
FormatNamed(ext) ==
    IF ext = <<"png">> THEN "PNG"
    ELSE IF ext \in {<<"jpg">>, <<"jpeg">>} THEN "JPEG"
    ELSE IF ext = <<"pdf">> THEN "PDF"
    ELSE "?"

\* C10: on success the file written at output_path is encoded in the format
\* that the path's extension names.
C10_OutputTypeFromExtension ==
    (SvgCalled /\ ret.kind = "ok" /\ ret.val = TRUE) =>
        /\ Exists(fs, call.output_path)
        /\ fs[call.output_path].fmt = FormatNamed(SplitLast(call.output_path))

(***************************************************************************)
(* figwizz/convert.py: convert_image                                       *)
(***************************************************************************)
\* ['png', 'jpg', 'jpeg', 'pdf', 'svg']
SourceExts == {<<"png">>, <<"jpg">>, <<"jpeg">>, <<"pdf">>, <<"svg">>}

\* the format names the imaging library registers an encoder under, and the
\* modes each encoder writes; 'JPG' is an extension, not a registered name
SaveFormats == {<<"PNG">>, <<"JPEG">>, <<"PDF">>}

EncoderModes(format) ==
    IF format = <<"JPEG">> THEN {ModeL, ModeRGB} ELSE Modes

Truncated == [fmt |-> "empty", img |-> NoImage]

\* img.save(path, format): KeyError for an unregistered format name; else
\* the file is opened for writing (created or truncated) and the encoder is
\* handed the image; when the encoder refuses the mode, a file the call
\* created is removed again and a file that was there stays truncated
Save(f, im, path, format) ==
    IF format \notin SaveFormats
    THEN [fs |-> f, ret |-> Raised("KeyError"), log |-> <<>>]
    ELSE IF im.mode \notin EncoderModes(format)
    THEN [fs |-> IF Exists(f, path) THEN WriteFile(f, path, Truncated) ELSE f,
          ret |-> Raised("OSError"),
          log |-> <<Event("encode", [format |-> format[1], mode |-> im.mode])>>]
    ELSE [fs |-> WriteFile(f, path, [fmt |-> format[1], img |-> im]),
          ret |-> NoRet,
          log |-> <<Event("encode", [format |-> format[1], mode |-> im.mode])>>]

\* target_format in ['jpg', 'pdf']
NeedsOpaque(target_format) == target_format \in {<<"jpg">>, <<"pdf">>}

\* convert_image(source_path, target_format, delete_original); imp is what
\* `import cairosvg` does in this environment
convert_image(f, source_path, target_format, delete_original, imp) ==
    LET source_ext == SplitLast(source_path)
        tf == IF StartsWithDot(target_format) THEN Tail(target_format)
              ELSE target_format
        o == ImageOpen(<<>>, f, source_path)
        m == IF NeedsOpaque(tf)
             THEN make_image_opaque(o.heap, f, Img(o.ret.id), <<255, 255, 255>>)
             ELSE o
        img == m.heap[m.ret.id]
        target_path == SplitextRoot(source_path) \o <<Dot>> \o Lower(tf)
        s == IF source_ext = <<"svg">>
             THEN svg_to_image(f, [t |-> "Image", svg |-> FALSE, pic |-> img],
                               target_path, imp, "ok")
             ELSE Save(f, img, target_path, Upper(tf))
    IN  IF source_ext \notin SourceExts
        THEN [fs |-> f, ret |-> Raised("ValueError"), log |-> <<>>]
        ELSE IF o.ret.kind = "raise"
        THEN [fs |-> f, ret |-> o.ret, log |-> <<>>]
        ELSE IF m.ret.kind = "raise"
        THEN [fs |-> f, ret |-> m.ret, log |-> <<>>]
        ELSE IF s.ret.kind = "raise"
        THEN [fs |-> s.fs, ret |-> s.ret, log |-> s.log]
        ELSE [fs |-> IF delete_original THEN RemoveFile(s.fs, source_path) ELSE s.fs,
              ret |-> ReturnedVal(target_path),
              log |-> s.log]

(***************************************************************************)
(* SpecConvert: one image file on disk, named with any of the extensions   *)
(* and holding any kind of content, is converted; the results may be       *)
(* converted again.                                                        *)
(***************************************************************************)
\* one bitmap per mode, with the fixtures' colours
FixtureBitmaps ==
    {b \in Bitmaps : /\ b.size = <<1, 1>>
                     /\ b.px[1] \in {<<128>>, <<128, 128>>, <<1>>, <<255, 0, 0>>,
                                     <<0, 255, 0, 128>>}}

FileContents ==
    {[fmt |-> "PNG", img |-> b] : b \in FixtureBitmaps}
    \cup {[fmt |-> "JPEG", img |-> b] :
            b \in {x \in FixtureBitmaps : x.mode \in {ModeL, ModeRGB} /\ ~x.trns}}
    \cup {[fmt |-> "PDF", img |-> NoImage], [fmt |-> "SVG", img |-> NoImage]}

SourcePaths == {<<"a", Dot, e>> : e \in {"png", "jpg", "jpeg", "pdf", "svg", "txt"}}

TargetFormats ==
    {<<"jpg">>, <<Dot, "jpg">>, <<"JPG">>, <<"jpeg">>, <<Dot, "jpeg">>, <<"JPEG">>,
     <<"pdf">>, <<Dot, "pdf">>, <<"PDF">>, <<"png">>, <<"PNG">>}

InitConvert ==
    /\ heap = <<>>
    /\ fs \in {WriteFile(EmptyFs, p, c) : p \in SourcePaths, c \in FileContents}
    /\ call = NoCall
    /\ ret = NoRet
    /\ log = <<>>
    /\ ncalls = 0
    /\ made = {}
    /\ environ = NoEnviron
    /\ gen = NoGen

ConvertImage ==
    \E p \in DOMAIN fs, tf \in TargetFormats, del \in BOOLEAN :
      \E imp \in (IF SplitLast(p) = <<"svg">> THEN ImportOutcomes ELSE {"ok"}) :
        LET r == convert_image(fs, p, tf, del, imp)
        IN  /\ ncalls < MaxCalls
            /\ fs' = r.fs
            /\ ret' = r.ret
            /\ log' = r.log
            /\ call' = [op |-> "convert_image", source_path |-> p,
                        target_format |-> tf, delete_original |-> del, imp |-> imp]
            /\ ncalls' = ncalls + 1
            /\ UNCHANGED <<heap, made, environ, gen>>

NextConvert == ConvertImage

SpecConvert == InitConvert /\ [][NextConvert]_vars

ConvertCalled == call.op = "convert_image"

\* the target format without its leading dot, in lower case
TargetName == Lower(IF StartsWithDot(call.target_format)
                    THEN Tail(call.target_format) ELSE call.target_format)

\* C5: whenever the target format cannot hold transparency (jpg, jpeg, pdf,
\* in any letter case, with or without a leading dot), the image handed to
\* the encoder has no alpha channel.
C5_OpaqueBeforeEncoding ==
    (ConvertCalled /\ TargetName \in {<<"jpg">>, <<"jpeg">>, <<"pdf">>}) =>
        \A i \in 1..Len(log) :
            log[i].ev = "encode" => log[i].arg.mode \notin {ModeRGBA, ModeLA}

\* C6: after a convert_image(..., delete_original=True) that returns, the
\* file at the returned path exists, and when the returned path differs
\* from source_path the source file no longer exists.
C6_ResultExistsSourceGone ==
    (ConvertCalled /\ call.delete_original /\ ret.kind = "ok") =>
        /\ Exists(fs, ret.val)
        /\ (ret.val # call.source_path => ~Exists(fs, call.source_path))

(***************************************************************************)
(* figwizz/convert.py: bytes_to_image                                      *)
(*                                                                         *)
(* A byte string is a sequence of numbers 0..255.  A base64 string is a    *)
(* sequence of symbols: a number 0..63 is the alphabet character of that   *)
(* value, Pad is the "=" character, Junk a character outside the alphabet. *)
(***************************************************************************)
Pad == 64
Junk == 65

\* base64.b64encode(b) (tests): three bytes to four characters, "=" padded
RECURSIVE B64Encode(_)
B64Encode(b) ==
    IF Len(b) = 0 THEN <<>>
    ELSE IF Len(b) = 1
    THEN <<b[1] \div 4, (b[1] % 4) * 16, Pad, Pad>>
    ELSE IF Len(b) = 2
    THEN <<b[1] \div 4, (b[1] % 4) * 16 + b[2] \div 16, (b[2] % 16) * 4, Pad>>
    ELSE <<b[1] \div 4, (b[1] % 4) * 16 + b[2] \div 16,
           (b[2] % 16) * 4 + b[3] \div 64, b[3] % 64>>
         \o B64Encode(SubSeq(b, 4, Len(b)))

\* binascii.a2b_base64 (not strict), as base64.b64decode(s) calls it: other
\* characters are skipped, a completed pad sequence ends the data, and
\* characters left over in an unfinished group are an error.
\* quad: characters of the current group so far; pads: "=" seen in a row
RECURSIVE A2B(_, _, _, _, _)
A2B(s, i, quad, pads, out) ==
    IF i > Len(s)
    THEN IF Len(quad) # 0 THEN [ok |-> FALSE, bytes |-> <<>>]
         ELSE [ok |-> TRUE, bytes |-> out]
    ELSE IF s[i] = Pad
    THEN IF Len(quad) >= 2 /\ Len(quad) + pads + 1 >= 4
         THEN [ok |-> TRUE, bytes |-> out]
         ELSE A2B(s, i + 1, quad, IF Len(quad) >= 2 THEN pads + 1 ELSE pads, out)
    ELSE IF s[i] = Junk
    THEN A2B(s, i + 1, quad, pads, out)
    ELSE LET c == s[i]
         IN CASE Len(quad) = 0 -> A2B(s, i + 1, <<c>>, 0, out)
              [] Len(quad) = 1 ->
                    A2B(s, i + 1, <<quad[1], c>>, 0,
                        Append(out, quad[1] * 4 + c \div 16))
              [] Len(quad) = 2 ->
                    A2B(s, i + 1, <<quad[1], quad[2], c>>, 0,
                        Append(out, (quad[2] % 16) * 16 + c \div 4))
              [] OTHER ->
                    A2B(s, i + 1, <<>>, 0, Append(out, (quad[3] % 4) * 64 + c))

B64Decode(s) == A2B(s, 1, <<>>, 0, <<>>)

\* the first byte of an encoded image that the decoder recognises (0x89, as
\* in the PNG signature); the byte after it is the picture's one gray pixel
Magic == 137

\* Image.open(BytesIO(b)): the picture the bytes encode, or an error
ImageOpenBytes(h, b) ==
    IF Len(b) >= 2 /\ b[1] = Magic
    THEN [heap |-> Append(h, [mode |-> ModeL, size |-> <<1, 1>>, trns |-> FALSE,
                              px |-> <<(<<b[2]>>)>>]),
          ret |-> Returned(Len(h) + 1), log |-> <<Event("open", b)>>]
    ELSE [heap |-> h, ret |-> Raised("UnidentifiedImageError"),
          log |-> <<Event("open", b)>>]

\* isinstance(bytes_input, bytes)
IsBytes_orBytearray(x) == x.t \in {"bytes", "bytearray"}

IsBytes(x) == x.t = "bytes"

\* bytes_to_image(bytes_input); the ValueError names type(bytes_input)
bytes_to_image(h, bytes_input) ==
    IF bytes_input.t = "str"
    THEN LET d == B64Decode(bytes_input.v)
         IN IF ~d.ok
            THEN [heap |-> h, ret |-> Raised("binascii.Error"),
                  log |-> <<Event("b64decode", bytes_input.v)>>]
            ELSE LET o == ImageOpenBytes(h, d.bytes)
                 IN [o EXCEPT !.log = <<Event("b64decode", bytes_input.v)>> \o @]
    ELSE IF IsBytes(bytes_input)
    THEN ImageOpenBytes(h, bytes_input.v)
    ELSE [heap |-> h,
          ret |-> [kind |-> "raise", id |-> 0, exc |-> "ValueError",
                   val |-> bytes_input.t],
          log |-> <<>>]

(***************************************************************************)
(* SpecBytes: bytes_to_image is called with byte strings, base64 strings   *)
(* (well and badly formed) and values of other types.                      *)
(***************************************************************************)
ByteValues == {0, 128, Magic}

ByteStrings == UNION {[1..n -> ByteValues] : n \in 0..MaxBytes}

\* encodings of the byte strings, whole, cut short by one character, and
\* with a foreign character in front
Base64Strings ==
    {B64Encode(b) : b \in ByteStrings}
    \cup {SubSeq(B64Encode(b), 1, Len(B64Encode(b)) - 1) : b \in ByteStrings \ {<<>>}}
    \cup {<<Junk>> \o B64Encode(b) : b \in ByteStrings}

BytesInputs ==
    {[t |-> "bytes", v |-> b] : b \in ByteStrings}
    \cup {[t |-> "str", v |-> x] : x \in Base64Strings}
    \cup {[t |-> "bytearray", v |-> b] : b \in ByteStrings}
    \cup {[t |-> "int", v |-> <<>>], [t |-> "NoneType", v |-> <<>>]}

InitBytes ==
    /\ heap = <<>>
    /\ fs = EmptyFs
    /\ call = NoCall
    /\ ret = NoRet
    /\ log = <<>>
    /\ ncalls = 0
    /\ made = {}
    /\ environ = NoEnviron
    /\ gen = NoGen

BytesToImage ==
    \E x \in BytesInputs :
        LET r == bytes_to_image(<<>>, x)
        IN  /\ ncalls < MaxCalls
            /\ heap' = r.heap
            /\ ret' = r.ret
            /\ log' = r.log
            /\ call' = [op |-> "bytes_to_image", bytes_input |-> x]
            /\ ncalls' = ncalls + 1
            /\ UNCHANGED <<fs, made, environ, gen>>

NextBytes == BytesToImage

SpecBytes == InitBytes /\ [][NextBytes]_vars

LogEvents == [i \in 1..Len(log) |-> log[i].ev]

\* C7: bytes_to_image dispatches on the input's type: a str is
\* base64-decoded and the decoded bytes are then opened as an image, a bytes
\* value is opened directly, and a value of any other type raises a
\* ValueError naming that type with no decode attempted.
C7_DispatchOnType ==
    call.op = "bytes_to_image" =>
        LET x == call.bytes_input
        IN  /\ x.t = "str" =>
                /\ log[1] = Event("b64decode", x.v)
                /\ \/ LogEvents = <<"b64decode">> /\ ret.exc = "binascii.Error"
                   \/ /\ LogEvents = <<"b64decode", "open">>
                      /\ B64Encode(log[2].arg) = SelectSeq(x.v, LAMBDA c : c # Junk)
            /\ x.t = "bytes" => log = <<Event("open", x.v)>>
            /\ x.t \notin {"str", "bytes"} =>
                /\ ret.kind = "raise" /\ ret.exc = "ValueError" /\ ret.val = x.t
                /\ log = <<>>

\* a base64 string was decoded and opened as the image its bytes encode
C7_Witness ==
    /\ call.op = "bytes_to_image"
    /\ call.bytes_input = [t |-> "str", v |-> B64Encode(<<Magic, 128>>)]
    /\ LogEvents = <<"b64decode", "open">>
    /\ ret.kind = "ok"
    /\ heap[ret.id].px = <<(<<128>>)>>

(***************************************************************************)
(* figwizz/utils/environ.py: the env-file search and loader.               *)
(* A path is a token sequence whose components are separated by "/"; the   *)
(* file system is keyed by normalised absolute paths.                      *)
(***************************************************************************)
NoneVal == [t |-> "NoneType", v |-> <<>>]

Sep == "/"
DotDot == ".."

\* os.getcwd(): a directory with three ancestors below the root
Cwd == <<Sep, "gg", Sep, "g", Sep, "p", Sep, "c">>

\* os.path.join(a, b)
Join(a, b) == IF b # <<>> /\ b[1] = Sep THEN b ELSE a \o <<Sep>> \o b

\* the index of the last "/" of p at or before position j (0 if none)
RECURSIVE LastSepUpTo(_, _)
LastSepUpTo(p, j) ==
    IF j = 0 THEN 0
    ELSE IF p[j] = Sep THEN j
    ELSE LastSepUpTo(p, j - 1)

\* the index of the first ".." component of p (0 if none)
RECURSIVE FirstDotDot(_, _)
FirstDotDot(p, j) ==
    IF j > Len(p) THEN 0
    ELSE IF p[j] = DotDot THEN j
    ELSE FirstDotDot(p, j + 1)

\* os.path.normpath on an absolute path: each ".." removes the component
\* before it
RECURSIVE Normpath(_)
Normpath(p) ==
    LET j == FirstDotDot(p, 1)
        s == LastSepUpTo(p, j - 2)
    IN  IF j = 0 THEN p
        ELSE IF s = 0 THEN Normpath(SubSeq(p, j + 1, Len(p)))
        ELSE Normpath(SubSeq(p, 1, s - 1) \o SubSeq(p, j + 1, Len(p)))

\* os.path.abspath(p)
Abspath(p) == Normpath(Join(Cwd, p))

\* os.path.exists(p)
PathExists(f, p) == Exists(f, Abspath(p))

\* ['..']*i joined: cwd, cwd/.., cwd/../.., ...
RECURSIVE Ups(_)
Ups(i) == IF i = 0 THEN Cwd ELSE Join(Ups(i - 1), <<DotDot>>)

\* 'auto', and the names searched for when the name is not given
Auto == <<"auto">>
DefaultEnvFileOpts ==
    << <<"env">>, <<"env", ".", "local">>, <<"env", ".", "development">>,
       <<"env", ".", "production">> >>

\* the default of max_parents
DefaultMaxParents == 3

\* env_file != 'auto' or env_file is not None
NotAutoOrNotNone(env_file) ==
    env_file # Str(Auto) \/ env_file # NoneVal

\* the inner loop: the first option that exists at level i, then break
RECURSIVE FirstExisting(_, _, _, _)
FirstExisting(f, opts, i, k) ==
    IF k > Len(opts) THEN NoneVal
    ELSE IF PathExists(f, Join(Ups(i), opts[k]))
         THEN Str(Join(Ups(i), opts[k]))
         ELSE FirstExisting(f, opts, i, k + 1)

\* the outer loop: for i in range(max_parents); a later level overwrites
\* env_filepath, the break leaves only the inner loop
RECURSIVE ScanParents(_, _, _, _, _)
ScanParents(f, opts, i, max_parents, env_filepath) ==
    IF i >= max_parents THEN env_filepath
    ELSE LET hit == FirstExisting(f, opts, i, 1)
         IN  ScanParents(f, opts, i + 1, max_parents,
                         IF hit = NoneVal THEN env_filepath ELSE hit)

search_for_env_file(f, env_file, max_parents, abspath) ==
    LET env_file_opts ==
            IF NotAutoOrNotNone(env_file) THEN <<env_file.v>>
            ELSE DefaultEnvFileOpts
        env_filepath == ScanParents(f, env_file_opts, 0, max_parents, NoneVal)
        \* os.path.join(os.getcwd(), None)
        joinsNone == /\ NotAutoOrNotNone(env_file)
                     /\ env_file.t = "NoneType"
                     /\ max_parents > 0
    IN  IF joinsNone
        THEN [ret |-> Raised("TypeError"), log |-> <<>>]
        ELSE IF env_filepath = NoneVal
        THEN [ret |-> ReturnedVal(NoneVal), log |-> <<>>]
        ELSE [ret |-> ReturnedVal(IF abspath THEN Str(Abspath(env_filepath.v))
                                  ELSE env_filepath),
              log |-> <<Event("print", env_filepath.v)>>]

\* --- load_env_variables ---------------------------------------------------
\* A file is a sequence of lines; a line is a token sequence that keeps its
\* newline.
Space == " "
Newline == "\n"
Hash == "#"
Equals == "="
Quote == "\""
Whitespace == {Space, Newline}

\* line.startswith('#')
StartsWithHash(line) == line # <<>> /\ line[1] = Hash

RECURSIVE LStrip(_)
LStrip(s) ==
    IF s # <<>> /\ s[1] \in Whitespace THEN LStrip(Tail(s)) ELSE s

RECURSIVE RStrip(_)
RStrip(s) ==
    IF s # <<>> /\ s[Len(s)] \in Whitespace
    THEN RStrip(SubSeq(s, 1, Len(s) - 1))
    ELSE s

\* line.strip()
Strip(s) == RStrip(LStrip(s))

\* s.split('='): the pieces between the '=' signs
RECURSIVE SplitEq(_, _, _)
SplitEq(s, j, piece) ==
    IF j > Len(s) THEN <<piece>>
    ELSE IF s[j] = Equals THEN <<piece>> \o SplitEq(s, j + 1, <<>>)
    ELSE SplitEq(s, j + 1, Append(piece, s[j]))

Split(s) == SplitEq(s, 1, <<>>)

\* env_vars[key] = value
SetItem(m, k, v) == [q \in (DOMAIN m) \cup {k} |-> IF q = k THEN v ELSE m[q]]

\* os.environ.update(env_vars)
Update(env, m) ==
    [q \in (DOMAIN env) \cup (DOMAIN m) |-> IF q \in DOMAIN m THEN m[q] ELSE env[q]]

Dict(m) == [t |-> "dict", v |-> m]

\* for line in file: ... key, value = line.strip().split('=')
RECURSIVE ParseLines(_, _, _)
ParseLines(lines, j, env_vars) ==
    IF j > Len(lines) THEN [ok |-> TRUE, env_vars |-> env_vars]
    ELSE IF StartsWithHash(lines[j]) THEN ParseLines(lines, j + 1, env_vars)
    ELSE LET parts == Split(Strip(lines[j]))
         IN  IF Len(parts) # 2 THEN [ok |-> FALSE, env_vars |-> env_vars]
             ELSE ParseLines(lines, j + 1, SetItem(env_vars, parts[1], parts[2]))

\* if not update_environ: return env_vars / else: os.environ.update(env_vars)
ReturnOrUpdate_always(env, env_vars, update_environ) ==
    [ret |-> ReturnedVal(IF update_environ THEN NoneVal ELSE Dict(env_vars)),
     environ |-> Update(env, env_vars)]
ReturnOrUpdate(env, env_vars, update_environ) ==
    IF ~update_environ
    THEN [ret |-> ReturnedVal(Dict(env_vars)), environ |-> env]
    ELSE [ret |-> ReturnedVal(NoneVal), environ |-> Update(env, env_vars)]

\* load_env_variables with os.environ set inside the loop over the lines
load_env_variables_lineByLine(f, env, env_file, update_environ, max_parents, abspath) ==
    IF env_file.t = "NoneType"
    THEN [ret |-> Raised("TypeError"), environ |-> env, log |-> <<>>]
    ELSE
    LET direct == PathExists(f, env_file.v)
        found == IF direct
                 THEN [ret |-> ReturnedVal(env_file), log |-> <<>>]
                 ELSE search_for_env_file(f, env_file, max_parents, abspath)
    IN  IF found.ret.kind = "raise"
        THEN [ret |-> found.ret, environ |-> env, log |-> found.log]
        ELSE IF found.ret.val = NoneVal
        THEN [ret |-> Raised("FileNotFoundError"), environ |-> env,
              log |-> found.log]
        ELSE LET parsed == ParseLines(f[Abspath(found.ret.val.v)], 1, EmptyMap)
             IN  IF ~parsed.ok
                 THEN [ret |-> Raised("ValueError"),
                       environ |-> IF update_environ
                                   THEN Update(env, parsed.env_vars) ELSE env,
                       log |-> found.log]
                 ELSE [log |-> found.log] @@
                      ReturnOrUpdate(env, parsed.env_vars, update_environ)

\* load_env_variables(env_file, update_environ, **kwargs), lines 35-55
load_env_variables(f, env, env_file, update_environ, max_parents, abspath) ==
    IF env_file.t = "NoneType"
    THEN [ret |-> Raised("TypeError"), environ |-> env, log |-> <<>>]
    ELSE
    LET direct == PathExists(f, env_file.v)
        found == IF direct
                 THEN [ret |-> ReturnedVal(env_file), log |-> <<>>]
                 ELSE search_for_env_file(f, env_file, max_parents, abspath)
    IN  IF found.ret.kind = "raise"
        THEN [ret |-> found.ret, environ |-> env, log |-> found.log]
        ELSE IF found.ret.val = NoneVal
        THEN [ret |-> Raised("FileNotFoundError"), environ |-> env,
              log |-> found.log]
        ELSE LET parsed == ParseLines(f[Abspath(found.ret.val.v)], 1, EmptyMap)
             IN  IF ~parsed.ok
                 THEN [ret |-> Raised("ValueError"), environ |-> env,
                       log |-> found.log]
                 ELSE [log |-> found.log] @@
                      ReturnOrUpdate(env, parsed.env_vars, update_environ)

(***************************************************************************)
(* SpecEnvSearch: env files placed in the working directory and its        *)
(* ancestors (conftest.mock_env_file writes ".env"), then calls of         *)
(* search_for_env_file.                                                    *)
(***************************************************************************)
DotEnv == <<".", "env">>
EnvName == <<"env">>
SearchNames == {DotEnv, EnvName, Auto}
SearchLevels == 0..(DefaultMaxParents - 1)
SearchFiles == {Abspath(Join(Ups(i), n)) : i \in SearchLevels, n \in SearchNames}

EnvFileArgs == {Str(Auto), Str(DotEnv), NoneVal}
MaxParentsArgs == {DefaultMaxParents, 1}

InitEnvSearch ==
    /\ heap = <<>>
    /\ fs \in {[q \in S |-> <<>>] : S \in SUBSET SearchFiles}
    /\ call = NoCall
    /\ ret = NoRet
    /\ log = <<>>
    /\ ncalls = 0
    /\ made = {}
    /\ environ = NoEnviron
    /\ gen = NoGen

SearchForEnvFile ==
    \E env_file \in EnvFileArgs, max_parents \in MaxParentsArgs,
       abspath \in BOOLEAN :
        LET r == search_for_env_file(fs, env_file, max_parents, abspath)
        IN  /\ call' = [op |-> "search_for_env_file", env_file |-> env_file,
                        max_parents |-> max_parents, abspath |-> abspath]
            /\ ret' = r.ret
            /\ log' = r.log
            /\ UNCHANGED <<heap, fs, ncalls, made, environ, gen>>

NextEnvSearch == SearchForEnvFile

SpecEnvSearch == InitEnvSearch /\ [][NextEnvSearch]_vars

\* search_for_env_file() with every argument at its default
DefaultSearch ==
    /\ call.op = "search_for_env_file"
    /\ call.env_file = Str(Auto)
    /\ call.max_parents = DefaultMaxParents
    /\ ~call.abspath

\* the names an env file goes by: '.env' and the listed options
EnvFileNames == {DotEnv} \cup {DefaultEnvFileOpts[k] : k \in DOMAIN DefaultEnvFileOpts}

\* C11: search_for_env_file() with its default arguments returns the path of
\* an existing file when a '.env' file exists in the current working
\* directory, and returns None when none of the searched directories holds
\* an env file.
C11_DefaultSearchFindsDotEnv ==
    DefaultSearch =>
        /\ ret.kind = "ok"
        /\ PathExists(fs, DotEnv) =>
               ret.val.t = "str" /\ PathExists(fs, ret.val.v)
        /\ (\A i \in SearchLevels, n \in EnvFileNames :
                ~PathExists(fs, Join(Ups(i), n))) => ret.val = NoneVal

(***************************************************************************)
(* SpecEnvLoad: an env file ".env" in the working directory                *)
(* (conftest.mock_env_file, test_environ.py), then calls of                *)
(* load_env_variables.                                                     *)
(***************************************************************************)
MaxLines == 3

\* the kinds of line the test files hold
CommentLine == <<Hash, Space, "c", Newline>>
AssignK1 == <<"K1", Equals, "v1", Newline>>
ReassignK1 == <<"K1", Equals, "v2", Newline>>
QuotedLine == <<"K3", Equals, Quote, "v1", Space, "v2", Quote, Newline>>
InlineCommentLine == <<"K4", Equals, "v1", Space, Hash, Space, "c", Newline>>
MalformedLine == <<"M", Space, "L", Newline>>
TwoEqualsLine == <<"K2", Equals, "v1", Equals, "v2", Newline>>

EnvLines ==
    {CommentLine, AssignK1, ReassignK1, QuotedLine, InlineCommentLine,
     MalformedLine, TwoEqualsLine}

EnvContents == UNION {[1..n -> EnvLines] : n \in 0..MaxLines}

DotEnvPath == Abspath(DotEnv)

\* the environment before the call: empty, or K1 already set
Environs == {EmptyMap, SetItem(EmptyMap, <<"K1">>, <<"old">>)}

LoadFileArgs == {Str(DotEnvPath), Str(Auto), NoneVal}

InitEnvLoad ==
    /\ heap = <<>>
    /\ fs \in {WriteFile(EmptyFs, DotEnvPath, c) : c \in EnvContents}
    /\ call = NoCall
    /\ ret = NoRet
    /\ log = <<>>
    /\ ncalls = 0
    /\ made = {}
    /\ environ \in Environs
    /\ gen = NoGen

LoadEnvVariables ==
    \E env_file \in LoadFileArgs, update_environ \in BOOLEAN :
        LET r == load_env_variables(fs, environ, env_file, update_environ,
                                    DefaultMaxParents, FALSE)
        IN  /\ call' = [op |-> "load_env_variables", env_file |-> env_file,
                        update_environ |-> update_environ]
            /\ ret' = r.ret
            /\ environ' = r.environ
            /\ log' = r.log
            /\ UNCHANGED <<heap, fs, ncalls, made, gen>>

NextEnvLoad == LoadEnvVariables

SpecEnvLoad == InitEnvLoad /\ [][NextEnvLoad]_vars

\* the lines of the env file
EnvFileLines == fs[DotEnvPath]

HasEquals(line) == \E j \in DOMAIN line : line[j] = Equals
\* a KEY=VALUE assignment: one '=' between a key and a value
IsAssignment(line) ==
    ~StartsWithHash(line) /\ Len(Split(Strip(line))) = 2
\* a line that is neither a comment nor an assignment, having no '='
IsMalformed(line) == ~StartsWithHash(line) /\ ~HasEquals(line)
KeyOf(line) == Split(Strip(line))[1]
RawValueOf(line) == Split(Strip(line))[2]

\* load_env_variables(<the .env file>, update_environ=False)
LoadedAsMapping ==
    /\ call.op = "load_env_variables"
    /\ call.env_file = Str(DotEnvPath)
    /\ ~call.update_environ

\* C12: load_env_variables skips lines that are not KEY=VALUE assignments (a
\* line without '='): it does not raise, and the result contains the keys of
\* all well-formed lines before and after the malformed one and no entry for
\* the malformed line.
C12_SkipsMalformedLines ==
    (/\ LoadedAsMapping
     /\ \E j \in DOMAIN EnvFileLines : IsMalformed(EnvFileLines[j])
     /\ \A j \in DOMAIN EnvFileLines :
            \/ StartsWithHash(EnvFileLines[j])
            \/ IsAssignment(EnvFileLines[j])
            \/ IsMalformed(EnvFileLines[j]))
    => /\ ret.kind = "ok"
       /\ ret.val.t = "dict"
       /\ \A j \in DOMAIN EnvFileLines :
              /\ IsAssignment(EnvFileLines[j]) =>
                     KeyOf(EnvFileLines[j]) \in DOMAIN ret.val.v
              /\ IsMalformed(EnvFileLines[j]) =>
                     Strip(EnvFileLines[j]) \notin DOMAIN ret.val.v

\* C13: load_env_variables stores cleaned values: for a line
\* KEY="quoted value" the stored value is the text without the surrounding
\* quotes, and for a line KEY=value # comment the stored value is 'value'
\* without the inline comment.
C13_StoresCleanedValues ==
    (/\ LoadedAsMapping
     /\ \A j \in DOMAIN EnvFileLines :
            StartsWithHash(EnvFileLines[j]) \/ IsAssignment(EnvFileLines[j]))
    => /\ ret.kind = "ok"
       /\ ret.val.t = "dict"
       /\ (\E j \in DOMAIN EnvFileLines : EnvFileLines[j] = QuotedLine) =>
              ret.val.v[<<"K3">>] = <<"v1", Space, "v2">>
       /\ (\E j \in DOMAIN EnvFileLines : EnvFileLines[j] = InlineCommentLine) =>
              ret.val.v[<<"K4">>] = <<"v1">>

\* the index of the last assignment to the key of line j
LastOfKey(j) ==
    CHOOSE m \in DOMAIN EnvFileLines :
        /\ IsAssignment(EnvFileLines[m])
        /\ KeyOf(EnvFileLines[m]) = KeyOf(EnvFileLines[j])
        /\ \A n \in DOMAIN EnvFileLines :
               (IsAssignment(EnvFileLines[n])
                /\ KeyOf(EnvFileLines[n]) = KeyOf(EnvFileLines[j])) => n <= m

\* every KEY of the file maps to its value in m
HoldsFileKeys(m) ==
    \A j \in DOMAIN EnvFileLines :
        IsAssignment(EnvFileLines[j]) =>
            /\ KeyOf(EnvFileLines[j]) \in DOMAIN m
            /\ m[KeyOf(EnvFileLines[j])] = RawValueOf(EnvFileLines[LastOfKey(j)])

List(s) == [t |-> "list", v |-> s]

\* 'data:image/<type>;base64' and the ',' that ends it, as symbols of a
\* base64 string
UriPrefix == 66
Comma == 67

RaisedMsg(e, msg) == [kind |-> "raise", id |-> 0, exc |-> e, val |-> msg]

\* isinstance(x, dict) and k in x and x[k] is not None
Usable_present(x, k) == x.t = "dict" /\ k \in DOMAIN x.v
Usable(x, k) ==
    x.t = "dict" /\ k \in DOMAIN x.v /\ x.v[k].t # "NoneType"

\* the outcomes of requests.get(url) followed by raise_for_status()
NetOutcomes == {"ok", "HTTPError", "ConnectionError"}

\* the URLs that responses name
Url1 == <<"https", ":", "//", "u1">>
Url2 == <<"https", ":", "//", "u2">>

\* response_obj.content: the bytes served at url
UrlContent(url) == IF url = Url1 THEN <<Magic, 6>> ELSE <<Magic, 7>>

\* image_str.startswith('data:image/'): image_str.split(',', 1)[1];
\* base64.b64decode(image_str)
DecodeImageStr(image_str, method) ==
    LET s == image_str.v
        isUri == s # <<>> /\ s[1] = UriPrefix
        commas == {j \in 1..Len(s) : s[j] = Comma}
        first == CHOOSE j \in commas : \A m \in commas : j <= m
        body == IF isUri THEN SubSeq(s, first + 1, Len(s)) ELSE s
        d == B64Decode(body)
    IN  IF isUri /\ commas = {}
        THEN [ret |-> Raised("IndexError"), log |-> <<>>]
        ELSE IF ~d.ok
        THEN [ret |-> Raised("binascii.Error"), log |-> <<>>]
        ELSE [ret |-> ReturnedVal(
                        [bytes |-> d.bytes,
                         metadata |-> [extraction_method |-> method,
                                       original_format |-> "base64"]]),
              log |-> <<>>]

\* FetchUrl without metadata['source_url'] = url
FetchUrl_noSourceUrl(url, method, net) ==
    IF net # "ok"
    THEN [ret |-> Raised(net), log |-> <<Event("requests.get", url.v)>>]
    ELSE [ret |-> ReturnedVal(
                    [bytes |-> UrlContent(url.v),
                     metadata |-> [extraction_method |-> method,
                                   original_format |-> "url"]]),
          log |-> <<Event("requests.get", url.v)>>]

\* requests.get(url); raise_for_status(); response_obj.content
FetchUrl(url, method, net) ==
    IF net # "ok"
    THEN [ret |-> Raised(net), log |-> <<Event("requests.get", url.v)>>]
    ELSE [ret |-> ReturnedVal(
                    [bytes |-> UrlContent(url.v),
                     metadata |-> [extraction_method |-> method,
                                   original_format |-> "url",
                                   source_url |-> url.v]]),
          log |-> <<Event("requests.get", url.v)>>]

\* Method 2 and 3: the keys at top level, then choices[0]
ExtractTopLevel(response_dict, net) ==
    LET choices == response_dict.v["choices"]
    IN  IF Usable(response_dict, "b64_json")
        THEN DecodeImageStr(response_dict.v["b64_json"], "root.b64_json")
        ELSE IF Usable(response_dict, "url")
        THEN FetchUrl(response_dict.v["url"], "root.url", net)
        ELSE IF Usable(response_dict, "image")
        THEN DecodeImageStr(response_dict.v["image"], "root.image")
        ELSE IF /\ "choices" \in DOMAIN response_dict.v
                /\ choices.t = "list" /\ Len(choices.v) > 0
                /\ Usable(choices.v[1], "image")
        THEN DecodeImageStr(choices.v[1].v["image"], "choices[0].image")
        ELSE [ret |-> RaisedMsg("ValueError",
                                "Unable to extract image data from response"),
              log |-> <<>>]

_extract_image_data(response, net) ==
    LET response_dict == response
        hasData == response_dict.t = "dict" /\ "data" \in DOMAIN response_dict.v
        data == response_dict.v["data"]
        item == IF data.t = "list" THEN data.v[1] ELSE data
    IN  IF hasData /\ ~(\/ data.t = "list" /\ Len(data.v) > 0
                        \/ data.t = "dict")
        THEN [ret |-> RaisedMsg("ValueError", "Unexpected 'data' format"),
              log |-> <<>>]
        ELSE IF hasData /\ Usable(item, "b64_json")
        THEN DecodeImageStr(item.v["b64_json"], "data[0].b64_json")
        ELSE IF hasData /\ Usable(item, "url")
        THEN FetchUrl(item.v["url"], "data[0].url", net)
        ELSE IF hasData /\ Usable(item, "image")
        THEN DecodeImageStr(item.v["image"], "data[0].image")
        ELSE IF response_dict.t = "dict"
        THEN ExtractTopLevel(response_dict, net)
        ELSE [ret |-> RaisedMsg("ValueError",
                                "Unable to extract image data. Response type"),
              log |-> <<>>]

(***************************************************************************)
(* figwizz/generate.py: generate_images.  The call checks its              *)
(* prerequisites and makes output_dir; the loops then run one step per     *)
(* prompt and one per (prompt, image index); the last step returns.        *)
(***************************************************************************)
Dash == "-"
Articles == {"a", "an", "the"}
Punctuation == {"!", Dash, "_", Dot}

\* re.sub(r'\s+', '-', s)
RECURSIVE DashWhitespace(_)
DashWhitespace(s) ==
    IF s = <<>> THEN <<>>
    ELSE IF s[1] \in Whitespace
    THEN <<Dash>> \o DashWhitespace(LStrip(s))
    ELSE <<s[1]>> \o DashWhitespace(Tail(s))

\* re.sub(r'--', '-', s)
RECURSIVE HalveDashes(_)
HalveDashes(s) ==
    IF Len(s) < 2 THEN s
    ELSE IF s[1] = Dash /\ s[2] = Dash
    THEN <<Dash>> \o HalveDashes(SubSeq(s, 3, Len(s)))
    ELSE <<s[1]>> \o HalveDashes(Tail(s))

\* s.strip('-')
RECURSIVE StripDashes(_)
StripDashes(s) ==
    IF s # <<>> /\ s[1] = Dash THEN StripDashes(Tail(s))
    ELSE IF s # <<>> /\ s[Len(s)] = Dash
    THEN StripDashes(SubSeq(s, 1, Len(s) - 1))
    ELSE s

\* prompt_for_filepath
PromptForFilepath(prompt) ==
    LET lowered == Lower(prompt)
        noArticles == SelectSeq(lowered, LAMBDA t : t \notin Articles)
        alnum == SelectSeq(noArticles, LAMBDA t : t \notin Punctuation)
    IN  StripDashes(HalveDashes(DashWhitespace(alnum)))

\* str(n), and int(s) back
Decimal == <<"1", "2", "3", "4", "5", "6">>
ParseInt(tok) == CHOOSE n \in DOMAIN Decimal : Decimal[n] = tok

\* f"image_{n}.png", f"image_{n}_response.json", f"image_{n}_metadata.json"
ImagePath(dir, n) == Join(dir, <<"image", "_", Decimal[n], Dot, "png">>)
ResponsePath(dir, n) ==
    Join(dir, <<"image", "_", Decimal[n], "_", "response", Dot, "json">>)
MetadataPath(dir, n) ==
    Join(dir, <<"image", "_", Decimal[n], "_", "metadata", Dot, "json">>)

\* the index of the last token t of s (0 if none)
LastIndexOf(s, t) ==
    LET at == {j \in DOMAIN s : s[j] = t}
    IN  IF at = {} THEN 0 ELSE CHOOSE j \in at : \A m \in at : m <= j

\* int(image_path.split('_')[-1].split('.')[0])
LastIndex(image_path) ==
    LET tail == SubSeq(image_path, LastIndexOf(image_path, "_") + 1,
                       Len(image_path))
        dots == {j \in DOMAIN tail : tail[j] = Dot}
        stop == IF dots = {} THEN Len(tail) + 1
                ELSE CHOOSE j \in dots : \A m \in dots : j <= m
    IN  ParseInt(SubSeq(tail, 1, stop - 1)[1])

Directory == [kind |-> "dir"]
File(kind, data) == [kind |-> kind, data |-> data]

\* os.makedirs(path, exist_ok=True)
MakeDirs(f, path) ==
    IF Exists(f, path) THEN f ELSE WriteFile(f, path, Directory)

\* os.getenv('OPENAI_API_KEY')
ApiKeyName == <<"OPENAI_API_KEY">>
GetEnv(env, name) == IF name \in DOMAIN env THEN Str(env[name]) ELSE NoneVal

\* lines 188-203: the prerequisites, then the output directory
MissingApiKey_never(api_key, env) == FALSE
MissingApiKey(api_key, env) ==
    (IF api_key = NoneVal THEN GetEnv(env, ApiKeyName) ELSE api_key) = NoneVal

generate_images_start(f, env, prompts, output_dir, n_images, api_key, return_images, litellm) ==
    IF ~litellm
    THEN [ret |-> Raised("ImportError"), fs |-> f, gen |-> [pc |-> "failed"]]
    ELSE IF MissingApiKey(api_key, env)
    THEN [ret |-> Raised("ValueError"), fs |-> f, gen |-> [pc |-> "failed"]]
    ELSE [ret |-> NoRet,
          fs |-> MakeDirs(f, output_dir),
          gen |-> [pc |-> "prompt",
                   prompts |-> IF prompts.t # "list" THEN <<prompts.v>>
                               ELSE prompts.v,
                   output_dir |-> output_dir,
                   n_images |-> n_images,
                   return_images |-> return_images,
                   p |-> 1, image_index |-> 0, image_paths |-> <<>>]]

OutputSubdir(g) == Join(g.output_dir, PromptForFilepath(g.prompts[g.p]))

\* lines 258-272: the response as JSON, or its string form when that fails
SaveResponse(f, response_path, response, ser) ==
    CASE ser = "ok" ->
            [fs |-> WriteFile(f, response_path, File("json", response)),
             log |-> <<Event("write", response_path)>>]
      [] ser = "dump_fails" ->
            [fs |-> WriteFile(f, response_path, File("response_str", response)),
             log |-> <<Event("write", response_path),
                       Event("print", <<"Warning: Could not save full response to JSON">>),
                       Event("print", <<"Attempting to save string representation instead">>),
                       Event("write", response_path)>>]
      [] OTHER ->
            [fs |-> f,
             log |-> <<Event("print", <<"Warning: Could not save full response to JSON">>),
                       Event("print", <<"Attempting to save string representation instead">>),
                       Event("print", <<"Failed to save response">>)>>]

\* the exception types that `except ValueError` catches
ValueErrors == {"ValueError", "binascii.Error"}

\* lines 305-310, for an OSError from open() on the image or metadata path
OSErrorNote ==
    <<Event("print", <<"Error processing generated image">>),
      Event("print", <<"Error type">>),
      Event("print", <<"OSError">>)>>

\* generate_one with image_paths.append(image_path) right after the image is
\* written, before the metadata
generate_one_appendEarly(f, g, o) ==
    LET prompt == g.prompts[g.p]
        output_subdir == OutputSubdir(g)
        called == <<Event("image_generation", prompt)>>
        first == ImagePath(output_subdir, g.image_index + 1)
        n == IF Exists(f, first) THEN LastIndex(first) + 1
             ELSE g.image_index + 1
        image_path == ImagePath(output_subdir, n)
        response_path == ResponsePath(output_subdir, n)
        metadata_path == MetadataPath(output_subdir, n)
        saved == SaveResponse(f, response_path, o.response, o.ser)
        x == _extract_image_data(o.response, o.net)
        savedNote == IF Exists(saved.fs, response_path)
                     THEN <<Event("print", <<"Full response saved to">>)>>
                     ELSE <<>>
    IN  IF o.api = "raise"
        THEN [fs |-> f, image_paths |-> g.image_paths,
              log |-> called \o
                      <<Event("image_generation raised", <<"APIError">>),
                        Event("print", <<"Error generating image for prompt">>),
                        Event("print", <<"Error: API Error">>)>>]
        ELSE IF x.ret.kind = "ok" /\ o.save = "ok"
        THEN [fs |-> WriteFile(
                       WriteFile(saved.fs, image_path,
                                 File("png", x.ret.val.bytes)),
                       metadata_path, File("json", x.ret.val.metadata)),
              image_paths |-> Append(g.image_paths, image_path),
              log |-> called \o saved.log \o x.log \o
                      <<Event("write", image_path),
                        Event("write", metadata_path)>>]
        ELSE IF x.ret.kind = "ok" /\ o.save = "image_fails"
        THEN [fs |-> saved.fs, image_paths |-> g.image_paths,
              log |-> called \o saved.log \o x.log \o OSErrorNote \o savedNote]
        ELSE IF x.ret.kind = "ok"
        THEN [fs |-> WriteFile(saved.fs, image_path,
                               File("png", x.ret.val.bytes)),
              image_paths |-> Append(g.image_paths, image_path),
              log |-> called \o saved.log \o x.log \o
                      <<Event("write", image_path)>> \o OSErrorNote \o savedNote]
        ELSE IF x.ret.exc \in ValueErrors
        THEN [fs |-> saved.fs, image_paths |-> g.image_paths,
              log |-> called \o saved.log \o x.log \o
                      <<Event("print", <<"Error: Unable to parse image from response">>),
                        Event("print", <<x.ret.exc>>)>> \o savedNote]
        ELSE [fs |-> saved.fs, image_paths |-> g.image_paths,
              log |-> called \o saved.log \o x.log \o
                      <<Event("print", <<"Error processing generated image">>),
                        Event("print", <<"Error type">>),
                        Event("print", <<x.ret.exc>>)>> \o savedNote]

\* lines 229-310: one pass of the inner loop; o is what the endpoint, the
\* response writer (ser), the network and the image and metadata writers
\* (save) do in this pass
generate_one(f, g, o) ==
    LET prompt == g.prompts[g.p]
        output_subdir == OutputSubdir(g)
        called == <<Event("image_generation", prompt)>>
        first == ImagePath(output_subdir, g.image_index + 1)
        n == IF Exists(f, first) THEN LastIndex(first) + 1
             ELSE g.image_index + 1
        image_path == ImagePath(output_subdir, n)
        response_path == ResponsePath(output_subdir, n)
        metadata_path == MetadataPath(output_subdir, n)
        saved == SaveResponse(f, response_path, o.response, o.ser)
        x == _extract_image_data(o.response, o.net)
        savedNote == IF Exists(saved.fs, response_path)
                     THEN <<Event("print", <<"Full response saved to">>)>>
                     ELSE <<>>
    IN  IF o.api = "raise"
        THEN [fs |-> f, image_paths |-> g.image_paths,
              log |-> called \o
                      <<Event("image_generation raised", <<"APIError">>),
                        Event("print", <<"Error generating image for prompt">>),
                        Event("print", <<"Error: API Error">>)>>]
        ELSE IF x.ret.kind = "ok" /\ o.save = "ok"
        THEN [fs |-> WriteFile(
                       WriteFile(saved.fs, image_path,
                                 File("png", x.ret.val.bytes)),
                       metadata_path, File("json", x.ret.val.metadata)),
              image_paths |-> Append(g.image_paths, image_path),
              log |-> called \o saved.log \o x.log \o
                      <<Event("write", image_path),
                        Event("write", metadata_path)>>]
        ELSE IF x.ret.kind = "ok" /\ o.save = "image_fails"
        THEN [fs |-> saved.fs, image_paths |-> g.image_paths,
              log |-> called \o saved.log \o x.log \o OSErrorNote \o savedNote]
        ELSE IF x.ret.kind = "ok"
        THEN [fs |-> WriteFile(saved.fs, image_path,
                               File("png", x.ret.val.bytes)),
              image_paths |-> g.image_paths,
              log |-> called \o saved.log \o x.log \o
                      <<Event("write", image_path)>> \o OSErrorNote \o savedNote]
        ELSE IF x.ret.exc \in ValueErrors
        THEN [fs |-> saved.fs, image_paths |-> g.image_paths,
              log |-> called \o saved.log \o x.log \o
                      <<Event("print", <<"Error: Unable to parse image from response">>),
                        Event("print", <<x.ret.exc>>)>> \o savedNote]
        ELSE [fs |-> saved.fs, image_paths |-> g.image_paths,
              log |-> called \o saved.log \o x.log \o
                      <<Event("print", <<"Error processing generated image">>),
                        Event("print", <<"Error type">>),
                        Event("print", <<x.ret.exc>>)>> \o savedNote]

\* lines 312-313: [Image.open(image_path) for image_path in image_paths]
RECURSIVE OpenAll(_, _, _, _, _)
OpenAll(h, f, paths, j, images) ==
    IF j > Len(paths) THEN [heap |-> h, ret |-> ReturnedVal(List(images))]
    ELSE LET o == ImageOpenBytes(h, f[paths[j]].data)
         IN  IF o.ret.kind = "raise" THEN [heap |-> h, ret |-> o.ret]
             ELSE OpenAll(o.heap, f, paths, j + 1, Append(images, Img(o.ret.id)))

\* what follows one pass of the inner loop, `continue` included: the next
\* index, or the next prompt after the last index
LoopAdvance_break(g, api) ==
    IF api = "raise" \/ g.image_index + 1 >= g.n_images
    THEN [g EXCEPT !.pc = "prompt", !.p = g.p + 1, !.image_index = 0]
    ELSE [g EXCEPT !.image_index = g.image_index + 1]
LoopAdvance(g, api) ==
    IF g.image_index + 1 >= g.n_images
    THEN [g EXCEPT !.pc = "prompt", !.p = g.p + 1, !.image_index = 0]
    ELSE [g EXCEPT !.image_index = g.image_index + 1]

(***************************************************************************)
(* SpecGen: one call of generate_images (test_genai.py), with the          *)
(* generation endpoint, the response writer and the network as the         *)
(* environment.                                                            *)
(***************************************************************************)
Prompt1 == <<"A", Space, "cat">>
Prompt2 == <<"The", Space, "cat", "!">>
PromptArgs ==
    {Str(Prompt1), List(<<>>), List(<<Prompt1>>), List(<<Prompt1, Prompt2>>)}
ImageCounts == {0, 1, 2}
OutputDir == <<"output">>
ApiKeyArgs == {NoneVal, Str(<<"key">>)}

\* the responses of the endpoint
ImageResponse ==
    Dict([k \in {"data"} |->
            List(<<Dict([j \in {"b64_json"} |-> Str(B64Encode(<<Magic, 1>>))])>>)])
UrlResponse ==
    Dict([k \in {"data"} |-> List(<<Dict([j \in {"url"} |-> Str(Url1)])>>)])
EmptyResponse == Dict(EmptyMap)

\* base64 data that decodes to bytes which are not a picture
NonImageResponse ==
    Dict([k \in {"data"} |->
            List(<<Dict([j \in {"b64_json"} |-> Str(B64Encode(<<0, 1>>))])>>)])

GenOutcome(api, response, ser, net, save) ==
    [api |-> api, response |-> response, ser |-> ser, net |-> net, save |-> save]
GenOutcomes ==
    {GenOutcome("raise", NoneVal, "ok", "ok", "ok"),
     GenOutcome("ok", ImageResponse, "ok", "ok", "ok"),
     GenOutcome("ok", ImageResponse, "dump_fails", "ok", "ok"),
     GenOutcome("ok", ImageResponse, "open_fails", "ok", "ok"),
     GenOutcome("ok", ImageResponse, "ok", "ok", "image_fails"),
     GenOutcome("ok", ImageResponse, "ok", "ok", "metadata_fails"),
     GenOutcome("ok", NonImageResponse, "ok", "ok", "ok"),
     GenOutcome("ok", EmptyResponse, "ok", "ok", "ok"),
     GenOutcome("ok", UrlResponse, "ok", "ok", "ok"),
     GenOutcome("ok", UrlResponse, "ok", "ConnectionError", "ok")}

\* files of an earlier run in the output directory of Prompt1
EarlierSubdir == Join(OutputDir, PromptForFilepath(Prompt1))
RECURSIVE EarlierRun(_)
EarlierRun(n) ==
    IF n = 0 THEN EmptyFs
    ELSE WriteFile(
           MakeDirs(MakeDirs(EarlierRun(n - 1), OutputDir), EarlierSubdir),
           ImagePath(EarlierSubdir, n), File("png", <<Magic, 0>>))

InitGen ==
    /\ heap = <<>>
    /\ fs \in {EarlierRun(n) : n \in 0..2}
    /\ call = NoCall
    /\ ret = NoRet
    /\ log = <<>>
    /\ ncalls = 0
    /\ made = {}
    /\ environ \in {NoEnviron, SetItem(EmptyMap, ApiKeyName, <<"envkey">>)}
    /\ gen = NoGen

GenerateImages ==
    \E prompts \in PromptArgs, n_images \in ImageCounts, api_key \in ApiKeyArgs,
       return_images \in BOOLEAN, litellm \in BOOLEAN :
        LET r == generate_images_start(fs, environ, prompts, OutputDir,
                                       n_images, api_key, return_images, litellm)
        IN  /\ gen.pc = "none"
            /\ call' = [op |-> "generate_images", prompts |-> prompts,
                        n_images |-> n_images, api_key |-> api_key,
                        return_images |-> return_images, litellm |-> litellm]
            /\ ret' = r.ret
            /\ fs' = r.fs
            /\ gen' = r.gen
            /\ ncalls' = ncalls + 1
            /\ UNCHANGED <<heap, log, made, environ>>

\* lines 207-226: the head of the outer loop
NextPrompt ==
    /\ gen.pc = "prompt"
    /\ gen.p <= Len(gen.prompts)
    /\ fs' = MakeDirs(fs, OutputSubdir(gen))
    /\ gen' = IF gen.n_images = 0 THEN [gen EXCEPT !.p = gen.p + 1]
              ELSE [gen EXCEPT !.pc = "image", !.image_index = 0]
    /\ UNCHANGED <<heap, call, ret, log, ncalls, made, environ>>

GenerateOne ==
    \E o \in GenOutcomes :
        LET r == generate_one(fs, gen, o)
        IN  /\ gen.pc = "image"
            /\ fs' = r.fs
            /\ log' = log \o r.log
            /\ gen' = [LoopAdvance(gen, o.api) EXCEPT !.image_paths = r.image_paths]
            /\ UNCHANGED <<heap, call, ret, ncalls, made, environ>>

GenReturn ==
    LET r == OpenAll(heap, fs, gen.image_paths, 1, <<>>)
    IN  /\ gen.pc = "prompt"
        /\ gen.p > Len(gen.prompts)
        /\ gen' = [gen EXCEPT !.pc = "done"]
        /\ IF gen.return_images
           THEN heap' = r.heap /\ ret' = r.ret
           ELSE heap' = heap /\ ret' = ReturnedVal(NoneVal)
        /\ UNCHANGED <<fs, call, log, ncalls, made, environ>>

NextGen == GenerateImages \/ NextPrompt \/ GenerateOne \/ GenReturn

SpecGen == InitGen /\ [][NextGen]_vars

\* a prerequisite of generate_images is missing
LitellmMissing == ~call.litellm
ApiKeyMissing == call.api_key = NoneVal /\ ApiKeyName \notin DOMAIN environ

\* C15: generate_images fails fast on missing prerequisites: it raises
\* ImportError when litellm is unavailable (checked first) and ValueError
\* when no api_key is passed and OPENAI_API_KEY is unset, and in both cases
\* it has not created output_dir, called the generation endpoint, or written
\* any file.
C15_FailsFast ==
    [][(gen.pc = "none" /\ call'.op = "generate_images"
        /\ (LitellmMissing \/ ApiKeyMissing)')
       => /\ ret' = Raised(IF LitellmMissing' THEN "ImportError" ELSE "ValueError")
          /\ fs' = fs
          /\ log' = <<>>
          /\ gen'.pc = "failed"]_vars

\* litellm is there, no key is passed or set: ValueError, and no output
\* directory
C15_Witness ==
    /\ call.op = "generate_images"
    /\ ~LitellmMissing
    /\ ApiKeyMissing
    /\ ret = Raised("ValueError")
    /\ ~Exists(fs, OutputDir)

\* the prompts of the endpoint calls made so far, in order
EndpointCalls ==
    LET calls == SelectSeq(log, LAMBDA e : e.ev = "image_generation")
    IN  [j \in 1..Len(calls) |-> calls[j].arg]

\* the (prompt, image index) pairs passed so far, prompt by prompt
PairsPassed ==
    [j \in 1..((gen.p - 1) * gen.n_images + gen.image_index) |->
        gen.prompts[((j - 1) \div gen.n_images) + 1]]

\* C16: generate_images invokes the generation endpoint exactly once per
\* (prompt, image index) pair, len(prompts) * n_images times in total (a
\* single string prompt counting as one prompt), even when some invocations
\* raise: an exception from one generation is reported on stdout, is not
\* propagated, and does not prevent the remaining generations.
C16_OncePerPair ==
    gen.pc \in {"prompt", "image", "done"} =>
        /\ EndpointCalls = PairsPassed
        /\ call.prompts.t = "str" => gen.prompts = <<call.prompts.v>>
        /\ call.prompts.t = "list" => gen.prompts = call.prompts.v
        /\ gen.pc = "done" =>
               Len(EndpointCalls) = Len(gen.prompts) * gen.n_images
        /\ \A j \in DOMAIN log :
               log[j].ev = "image_generation raised" =>
                   /\ j + 2 <= Len(log)
                   /\ log[j + 1] = Event("print", <<"Error generating image for prompt">>)
                   /\ log[j + 2] = Event("print", <<"Error: API Error">>)
        /\ ret.kind = "raise" => ret.exc # "APIError"

\* two prompts with two images each: the first generation raised, the
\* call went on to the other three and returned
C16_Witness ==
    /\ gen.pc = "done"
    /\ ret.kind = "ok"
    /\ Len(gen.prompts) = 2 /\ gen.n_images = 2
    /\ Len(EndpointCalls) = 4
    /\ log[2].ev = "image_generation raised"
    /\ Len(gen.image_paths) = 3

(***************************************************************************)
(* SpecExtract: _extract_image_data on responses of every shape the        *)
(* function distinguishes.                                                 *)
(***************************************************************************)
\* a key that a dict does not have
Absent == [t |-> "absent", v |-> <<>>]

\* {k: v for k, v in fields if v is given}
DictOf(fields) ==
    Dict([k \in {q \in DOMAIN fields : fields[q].t # "absent"} |-> fields[k]])

Opt(values) == {Absent, NoneVal} \cup {Str(x) : x \in values}

\* a data URI: 'data:image/png;base64,' and the encoded picture
DataUri(b) == <<UriPrefix, Comma>> \o B64Encode(b)
\* an encoding cut short by one character
CutShort(b) == SubSeq(B64Encode(b), 1, Len(B64Encode(b)) - 1)

ItemDicts ==
    {DictOf([b64_json |-> b, url |-> u, image |-> i]) :
        b \in Opt({B64Encode(<<Magic, 1>>)}),
        u \in Opt({Url1}),
        i \in Opt({DataUri(<<Magic, 2>>)})}

NotADict == Str(B64Encode(<<Magic, 0>>))

DataValues ==
    {Absent, NoneVal, List(<<>>)}
    \cup {List(<<it>>) : it \in ItemDicts \cup {NotADict}}
    \cup ItemDicts

ChoicesValues ==
    {Absent, NoneVal, List(<<>>), List(<<NotADict>>)}
    \cup {List(<<DictOf([image |-> i])>>) :
            i \in Opt({B64Encode(<<Magic, 5>>), <<UriPrefix>>})}

Responses ==
    {DictOf([data |-> d, b64_json |-> b, url |-> u, image |-> i, choices |-> c]) :
        d \in DataValues,
        b \in Opt({B64Encode(<<Magic, 3>>)}),
        u \in Opt({Url2}),
        i \in Opt({B64Encode(<<Magic, 4>>), CutShort(<<Magic, 4>>)}),
        c \in ChoicesValues}
    \cup {NoneVal, NotADict}

\* the response and the state of the network are fixed before the call
InitExtract ==
    /\ heap = <<>>
    /\ fs = EmptyFs
    /\ call \in {[op |-> "pending", response |-> response, net |-> net] :
                    response \in Responses, net \in NetOutcomes}
    /\ ret = NoRet
    /\ log = <<>>
    /\ ncalls = 0
    /\ made = {}
    /\ environ = NoEnviron
    /\ gen = NoGen

ExtractImageData ==
    LET r == _extract_image_data(call.response, call.net)
    IN  /\ call.op = "pending"
        /\ call' = [call EXCEPT !.op = "_extract_image_data"]
        /\ ret' = r.ret
        /\ log' = r.log
        /\ UNCHANGED <<heap, fs, ncalls, made, environ, gen>>

NextExtract == ExtractImageData

SpecExtract == InitExtract /\ [][NextExtract]_vars

\* a key is usable when present and not None
KeyUsable(x, k) ==
    /\ x.t = "dict"
    /\ k \in DOMAIN x.v
    /\ x.v[k] # NoneVal

HasKey(x, k) == x.t = "dict" /\ k \in DOMAIN x.v

\* the entry of 'data': the first element of a list, or a dict itself
HasDataEntry(resp) ==
    /\ HasKey(resp, "data")
    /\ \/ resp.v["data"].t = "list" /\ resp.v["data"].v # <<>>
       \/ resp.v["data"].t = "dict"
DataEntry(resp) ==
    IF resp.v["data"].t = "list" THEN resp.v["data"].v[1] ELSE resp.v["data"]

HasChoicesEntry(resp) ==
    /\ HasKey(resp, "choices")
    /\ resp.v["choices"].t = "list" /\ resp.v["choices"].v # <<>>

\* the sources in the order of the claim
SourceOrder ==
    <<"data[0].b64_json", "data[0].url", "data[0].image",
      "root.b64_json", "root.url", "root.image", "choices[0].image">>

SourceKey(j) == <<"b64_json", "url", "image", "b64_json", "url", "image", "image">>[j]

SourceHolder(resp, j) ==
    IF j <= 3 THEN DataEntry(resp)
    ELSE IF j <= 6 THEN resp
    ELSE resp.v["choices"].v[1]

SourceUsable(resp, j) ==
    /\ j <= 3 => HasDataEntry(resp)
    /\ j = 7 => HasChoicesEntry(resp)
    /\ KeyUsable(SourceHolder(resp, j), SourceKey(j))

UsableSources(resp) == {j \in DOMAIN SourceOrder : SourceUsable(resp, j)}
FirstUsable(resp) ==
    CHOOSE j \in UsableSources(resp) : \A m \in UsableSources(resp) : j <= m

\* the result is the image of source j, named as such, unless obtaining it
\* failed (the text does not decode, the request fails)
FromSource(resp, j) ==
    LET text == SourceHolder(resp, j).v[SourceKey(j)].v
    IN  \/ /\ ret.kind = "ok"
           /\ ret.val.metadata.extraction_method = SourceOrder[j]
           /\ IF SourceKey(j) = "url"
              THEN log = <<Event("requests.get", text)>>
                   /\ ret.val.bytes = UrlContent(text)
              ELSE B64Encode(ret.val.bytes) =
                       SelectSeq(text, LAMBDA c : c \notin {UriPrefix, Comma})
        \/ /\ ret.kind = "raise"
           /\ ret.exc \in {"binascii.Error", "IndexError"} \cup (NetOutcomes \ {"ok"})

ExtractCalledOnDict ==
    call.op = "_extract_image_data" /\ call.response.t = "dict"

\* 'data' is present but is neither a non-empty list nor a dict
DataMalformed(resp) == HasKey(resp, "data") /\ ~HasDataEntry(resp)

\* C17 (as amended): _extract_image_data returns the image from the first
\* usable source in the order data[0].b64_json, data[0].url, data[0].image,
\* top-level b64_json, top-level url, top-level image, choices[0].image, and
\* the returned extraction_method names exactly that source; when the entry
\* of 'data' has no usable key extraction falls back to the top-level keys
\* and then to 'choices'; when 'data' is present but is an empty list, None
\* or another non-dict value, it raises ValueError and consults no other key.
C17_FirstUsableSource ==
    ExtractCalledOnDict =>
        LET resp == call.response
        IN  IF DataMalformed(resp)
            THEN ret = RaisedMsg("ValueError", "Unexpected 'data' format")
                 /\ log = <<>>
            ELSE IF UsableSources(resp) = {}
            THEN ret.kind = "raise" /\ ret.exc = "ValueError"
            ELSE FromSource(resp, FirstUsable(resp))

\* the keys of data[0] are there but None, and the image came from the
\* top-level url
C17_Witness ==
    /\ ExtractCalledOnDict
    /\ HasDataEntry(call.response)
    /\ DataEntry(call.response) =
           DictOf([b64_json |-> NoneVal, url |-> NoneVal, image |-> NoneVal])
    /\ ret.kind = "ok"
    /\ ret.val.metadata.extraction_method = "root.url"
    /\ ret.val.bytes = UrlContent(Url2)

\* C17 (as stated): as above, but whenever 'data' provides no usable image
\* (its entry lacks all three keys, they are None, or the data list is
\* empty) extraction falls back to the top-level keys and then to 'choices'.
C17_FallbackOnEmptyData ==
    ExtractCalledOnDict =>
        LET resp == call.response
        IN  IF UsableSources(resp) = {}
            THEN ret.kind = "raise" /\ ret.exc = "ValueError"
            ELSE FromSource(resp, FirstUsable(resp))

(***************************************************************************)
(* figwizz/webkit.py: is_url_a_pdf.                                        *)
(***************************************************************************)
Bool(b) == [t |-> "bool", v |-> b]

\* s.endswith(suffix)
EndsWith(s, suffix) ==
    /\ Len(s) >= Len(suffix)
    /\ SubSeq(s, Len(s) - Len(suffix) + 1, Len(s)) = suffix

\* 'pdf' in content_type.lower()
ContainsPdf_caseSensitive(content_type) ==
    \E j \in DOMAIN content_type : content_type[j] = "pdf"
ContainsPdf(content_type) ==
    \E j \in DOMAIN content_type : Lower(content_type)[j] = "pdf"

\* the outcome of requests.head: an exception, or a response whose headers
\* have a Content-Type or not
HeadRaises(e) == [kind |-> "raise", exc |-> e, header |-> Absent]
HeadResponse(header) == [kind |-> "response", exc |-> "", header |-> header]

\* response.headers.get('Content-Type', '')
ContentType(head) == IF head.header.t = "absent" THEN Str(<<>>) ELSE head.header

is_url_a_pdf(url, head) ==
    IF url.t # "str"
    THEN [ret |-> Raised("AttributeError"), log |-> <<>>]
    ELSE IF EndsWith(Lower(url.v), <<Dot, "pdf">>)
    THEN [ret |-> ReturnedVal(Bool(TRUE)), log |-> <<>>]
    ELSE [ret |-> ReturnedVal(Bool(
                    /\ head.kind = "response"
                    /\ ContentType(head).t = "str"
                    /\ ContainsPdf(ContentType(head).v))),
          log |-> <<Event("requests.head", url.v)>>]

(***************************************************************************)
(* SpecPdfUrl: is_url_a_pdf on URLs with and without a PDF extension, with *)
(* every outcome of the HEAD request (test_webkit.py).                     *)
(***************************************************************************)
UrlBases == {<<"http://example.com/document">>, <<"https://example.com/file">>}
UrlSuffixes ==
    {<<>>, <<Dot, "pdf">>, <<Dot, "PDF">>, <<Dot, "Pdf">>, <<Dot, "jpg">>,
     <<Dot, "pdf", "?", "page=1">>}
UrlArgs == {Str(b \o s) : b \in UrlBases, s \in UrlSuffixes} \cup {NoneVal}

HeadOutcomes ==
    {HeadRaises("Exception"), HeadRaises("Timeout"),
     HeadResponse(Absent),
     HeadResponse(Str(<<"application", "/", "pdf">>)),
     HeadResponse(Str(<<"application", "/", "PDF">>)),
     HeadResponse(Str(<<"Application", "/", "x-", "Pdf", ";", "charset">>)),
     HeadResponse(Str(<<"text", "/", "html">>)),
     HeadResponse(NoneVal)}

\* the URL and the state of the network are fixed before the call
InitPdfUrl ==
    /\ heap = <<>>
    /\ fs = EmptyFs
    /\ call \in {[op |-> "pending", url |-> u, head |-> h] :
                    u \in UrlArgs, h \in HeadOutcomes}
    /\ ret = NoRet
    /\ log = <<>>
    /\ ncalls = 0
    /\ made = {}
    /\ environ = NoEnviron
    /\ gen = NoGen

IsUrlAPdf ==
    LET r == is_url_a_pdf(call.url, call.head)
    IN  /\ call.op = "pending"
        /\ call' = [call EXCEPT !.op = "is_url_a_pdf"]
        /\ ret' = r.ret
        /\ log' = r.log
        /\ UNCHANGED <<heap, fs, ncalls, made, environ, gen>>

NextPdfUrl == IsUrlAPdf

SpecPdfUrl == InitPdfUrl /\ [][NextPdfUrl]_vars

\* 'pdf' in any letter case
PdfSpellings == {"pdf", "PDF", "Pdf"}

\* the URL ends with '.pdf' in some letter case
HasPdfExtension(u) ==
    Len(u) >= 2 /\ u[Len(u) - 1] = Dot /\ u[Len(u)] \in PdfSpellings

\* the HEAD request was answered with a Content-Type that contains 'pdf'
AnsweredPdf(head) ==
    /\ head.kind = "response"
    /\ head.header.t = "str"
    /\ \E j \in DOMAIN head.header.v : head.header.v[j] \in PdfSpellings

\* C18: is_url_a_pdf, called with a string, never raises: it returns True
\* when the URL ends with '.pdf' in any letter case (without issuing a
\* request), otherwise True exactly when the HEAD response's Content-Type
\* contains 'pdf' (case-insensitive), and False when the request fails with
\* any exception.
C18_TotalOnUrls ==
    (call.op = "is_url_a_pdf" /\ call.url.t = "str") =>
        /\ ret.kind = "ok"
        /\ ret.val.t = "bool"
        /\ IF HasPdfExtension(call.url.v)
           THEN ret.val.v /\ log = <<>>
           ELSE /\ log = <<Event("requests.head", call.url.v)>>
                /\ ret.val.v <=> AnsweredPdf(call.head)
                /\ call.head.kind = "raise" => ~ret.val.v

\* no PDF extension, and the server answered 'application/PDF'
C18_Witness ==
    /\ call.op = "is_url_a_pdf"
    /\ call.url = Str(<<"http://example.com/document">>)
    /\ call.head = HeadResponse(Str(<<"application", "/", "PDF">>))
    /\ ret = ReturnedVal(Bool(TRUE))
    /\ log = <<Event("requests.head", call.url.v)>>

(***************************************************************************)
(* figwizz/workflows/icons.py: make_hexicon, and the n-gon crop it         *)
(* delegates to.  figwizz/modify.py as given has no ngon_crop: its         *)
(* signature, default crop size and its check of `sides` follow section    *)
(* 4.4 of the specification, the mode of its result follows the tests.     *)
(***************************************************************************)
\* result.mode of ngon_crop and make_hexicon in the tests, without a
\* background (test_modify.py) and with one (test_workflows.py)
NgonOutputMode(background_color) == ModeRGBA

Min(a, b) == IF a <= b THEN a ELSE b

\* ngon_crop(input, sides, crop_size, ..., background_color): the crop is a
\* square of side min(width, height) unless crop_size is given; a crop this
\* small lies inside the polygon, so the mask is opaque over all of it
ngon_crop(h, id, sides, crop_size, background_color) ==
    LET im == h[id]
        side == Min(im.size[1], im.size[2])
        size == IF crop_size = NoneVal THEN <<side, side>> ELSE crop_size.v
        out == [mode |-> NgonOutputMode(background_color),
                size |-> size,
                trns |-> FALSE,
                px |-> [i \in 1..(size[1] * size[2]) |->
                           ToRGB(im.mode, im.px[1]) \o <<255>>]]
    IN  IF sides < 3
        THEN [heap |-> h, ret |-> Raised("InvalidGeometryError"),
              log |-> <<Event("ngon_crop", <<sides>>)>>]
        ELSE [heap |-> Append(h, out), ret |-> Returned(Len(h) + 1),
              log |-> <<Event("ngon_crop", <<sides>>)>>]

\* lines 46-54: `image` is bound when the input is an existing path, bytes
\* or an Image, and is left unbound otherwise
BindImage(h, f, input_image) ==
    IF input_image.t = "str" /\ Exists(f, input_image.v)
    THEN ImageOpen(h, f, input_image.v) @@ [bound |-> TRUE, log |-> <<>>]
    ELSE IF input_image.t = "bytes"
    THEN bytes_to_image(h, input_image) @@ [bound |-> TRUE]
    ELSE IF input_image.t = "Image"
    THEN [heap |-> h, ret |-> Returned(input_image.v), log |-> <<>>,
          bound |-> TRUE]
    ELSE [heap |-> h, ret |-> NoRet, log |-> <<>>, bound |-> FALSE]

\* make_hexicon(input_image, size, **kwargs); line 56 reads `image`, which
\* raises UnboundLocalError when no branch bound it
make_hexicon_uncropped(h, f, input_image, size, background_color) ==
    LET b == BindImage(h, f, input_image)
    IN  IF ~b.bound
        THEN [heap |-> h, ret |-> Raised("UnboundLocalError"), log |-> <<>>]
        ELSE [heap |-> b.heap, ret |-> b.ret, log |-> b.log]
make_hexicon(h, f, input_image, size, background_color) ==
    LET b == BindImage(h, f, input_image)
        r == ngon_crop(b.heap, b.ret.id, 6, size, background_color)
    IN  IF ~b.bound
        THEN [heap |-> h, ret |-> Raised("UnboundLocalError"), log |-> <<>>]
        ELSE IF b.ret.kind = "raise"
        THEN [heap |-> b.heap, ret |-> b.ret, log |-> b.log]
        ELSE [heap |-> r.heap, ret |-> r.ret, log |-> b.log \o r.log]

(***************************************************************************)
(* SpecIcon: a bitmap, possibly saved to a file, then one call of          *)
(* make_hexicon or ngon_crop (test_workflows.py, test_modify.py).          *)
(***************************************************************************)
\* sides of test_ngon_crop_different_sides, and one too few
SidesArgs == {2, 3, 4, 5, 6, 8}
BackgroundArgs == {NoneVal, Str(<<"white">>)}
HexiconInputs ==
    {Img(1), Str(PathA), Str(PathMissing),
     [t |-> "bytes", v |-> <<Magic, 128>>], [t |-> "bytes", v |-> <<0>>],
     [t |-> "int", v |-> <<>>], NoneVal}

InitIcon ==
    /\ heap \in {<<b>> : b \in Bitmaps}
    /\ fs \in {EmptyFs} \cup {WriteFile(EmptyFs, PathA, [fmt |-> "PNG", img |-> heap[1]])}
    /\ call = NoCall
    /\ ret = NoRet
    /\ log = <<>>
    /\ ncalls = 0
    /\ made = {}
    /\ environ = NoEnviron
    /\ gen = NoGen

MakeHexicon ==
    \E input_image \in HexiconInputs, background_color \in BackgroundArgs :
        LET r == make_hexicon(heap, fs, input_image, NoneVal, background_color)
        IN  /\ ncalls = 0
            /\ call' = [op |-> "make_hexicon", input_image |-> input_image,
                        sides |-> 6, background_color |-> background_color]
            /\ heap' = r.heap
            /\ ret' = r.ret
            /\ log' = r.log
            /\ ncalls' = 1
            /\ UNCHANGED <<fs, made, environ, gen>>

NgonCrop ==
    \E sides \in SidesArgs, background_color \in BackgroundArgs :
        LET r == ngon_crop(heap, 1, sides, NoneVal, background_color)
        IN  /\ ncalls = 0
            /\ call' = [op |-> "ngon_crop", input_image |-> Img(1),
                        sides |-> sides, background_color |-> background_color]
            /\ heap' = r.heap
            /\ ret' = r.ret
            /\ log' = r.log
            /\ ncalls' = 1
            /\ UNCHANGED <<fs, made, environ, gen>>

NextIcon == MakeHexicon \/ NgonCrop

SpecIcon == InitIcon /\ [][NextIcon]_vars

\* the input is an existing path string, a bytes value or an Image
ValidHexiconInput ==
    \/ call.input_image.t = "str" /\ Exists(fs, call.input_image.v)
    \/ call.input_image.t \in {"bytes", "Image"}

\* C19: make_hexicon raises ValueError for every input that is not an
\* existing path string, a bytes value, or a PIL Image (a string naming a
\* non-existent path, values of any other type) and never reaches ngon_crop
\* in those cases.
C19_InvalidInputValueError ==
    (call.op = "make_hexicon" /\ ~ValidHexiconInput) =>
        /\ ret.kind = "raise"
        /\ ret.exc = "ValueError"
        /\ \A j \in DOMAIN log : log[j].ev # "ngon_crop"

CropReturned ==
    /\ call.op \in {"make_hexicon", "ngon_crop"}
    /\ call.sides \in {3, 4, 5, 6, 8}
    /\ ret.kind = "ok"

AsInvalidInput(o) ==
    IF o.ret.kind = "raise"
    THEN [heap |-> o.heap, ret |-> Raised("InvalidInputError")]
    ELSE [heap |-> o.heap, ret |-> o.ret]

\* normalize_image_input with a conversion to RGB in the bitmap branch
normalize_image_input_rgb(h, f, source) ==
    IF source.t = "Image"
    THEN [heap |-> Append(h, ConvertRGB(h[source.v])), ret |-> Returned(Len(h) + 1)]
    ELSE [heap |-> h, ret |-> Raised("InvalidInputError")]

\* normalize_image_input(source), by the kind of source: a bitmap is
\* copied, a string that is an existing path is decoded from the file, any
\* other string is tried as base64, a byte buffer is decoded directly, and
\* any other type is rejected.
normalize_image_input(h, f, source) ==
    IF source.t = "Image" THEN CopyImage(h, source.v)
    ELSE IF source.t = "str"
    THEN IF Exists(f, source.v)
         THEN ImageOpen(h, f, source.v)
         ELSE LET d == B64Decode(source.v)
              IN IF ~d.ok THEN [heap |-> h, ret |-> Raised("InvalidInputError")]
                 ELSE AsInvalidInput(ImageOpenBytes(h, d.bytes))
    ELSE IF source.t = "bytes"
    THEN AsInvalidInput(ImageOpenBytes(h, source.v))
    ELSE [heap |-> h, ret |-> Raised("InvalidInputError")]

OutputTargets == {"bitmap", "bytes"}

\* normalize_image_output(bitmap, target): the bitmap by value, or its PNG
\* encoding; another target tag is an UnsupportedTargetError
normalize_image_output(h, id, target) ==
    IF target = "bitmap" THEN CopyImage(h, id)
    ELSE IF target = "bytes"
    THEN [heap |-> h,
          ret |-> ReturnedVal([t |-> "bytes", v |-> [fmt |-> "PNG", img |-> h[id]]])]
    ELSE [heap |-> h, ret |-> Raised("UnsupportedTargetError")]

(***************************************************************************)
(* SpecNorm: a caller holding one bitmap, optionally saved to disk as the  *)
(* fixtures do, normalizes bitmaps, strings, byte buffers and a number,    *)
(* passes a normalized bitmap on to normalize_image_output, and calls      *)
(* make_image_opaque on the same strings.                                  *)
(***************************************************************************)
NormPathA == <<26, Junk, 41, 39, 32>>         \* "a.png", the saved fixture
NormPathMissing == <<27, Junk, 41, 39, 32>>   \* "b.png", never created
NormPathOdd == <<63, 27, Junk, 41, 39, 32>>   \* "/b.png", never created

NormStrings ==
    {NormPathA, NormPathMissing, NormPathOdd, B64Encode(<<Magic, 128>>),
     B64Encode(<<0, 128>>)}

NormSources ==
    {Str(s) : s \in NormStrings}
    \cup {[t |-> "bytes", v |-> b] : b \in {<<Magic, 128>>, <<0>>}}
    \cup {[t |-> "int", v |-> <<>>]}

InitNorm ==
    /\ heap \in {<<b>> : b \in FixtureBitmaps}
    /\ fs = EmptyFs
    /\ call = NoCall
    /\ ret = NoRet
    /\ log = <<>>
    /\ ncalls = 0
    /\ made = {}
    /\ environ = NoEnviron
    /\ gen = NoGen

\* conftest.sample_image_path
SaveNormFixture ==
    /\ ncalls = 0
    /\ ~Exists(fs, NormPathA)
    /\ fs' = WriteFile(fs, NormPathA, [fmt |-> "PNG", img |-> heap[1]])
    /\ UNCHANGED <<heap, call, ret, log, ncalls, made, environ, gen>>

NormalizeImageInput ==
    \E source \in NormSources \cup {Img(id) : id \in 1..Len(heap)} :
        LET r == Collect(heap, normalize_image_input(heap, fs, source))
        IN  /\ ncalls < MaxCalls
            /\ heap' = r.heap
            /\ ret' = r.ret
            /\ call' = [op |-> "normalize_image_input", source |-> source,
                        before |-> heap]
            /\ ncalls' = ncalls + 1
            /\ UNCHANGED <<fs, log, made, environ, gen>>

\* normalize_image_output(normalize_image_input(source), target)
NormalizeImageOutput ==
    \E target \in OutputTargets \cup {"svg"} :
        LET r == Collect(heap, normalize_image_output(heap, ret.id, target))
        IN  /\ call.op = "normalize_image_input"
            /\ ret.kind = "ok"
            /\ heap' = r.heap
            /\ ret' = r.ret
            /\ call' = [op |-> "normalize_image_output", source |-> call.source,
                        before |-> call.before, bitmap |-> ret.id,
                        target |-> target]
            /\ UNCHANGED <<fs, log, ncalls, made, environ, gen>>

OpaqueOnString ==
    \E s \in NormStrings :
        LET r == Collect(heap, make_image_opaque(heap, fs, Str(s), White))
        IN  /\ ncalls < MaxCalls
            /\ heap' = r.heap
            /\ ret' = r.ret
            /\ call' = [op |-> "make_image_opaque", source |-> Str(s),
                        before |-> heap]
            /\ ncalls' = ncalls + 1
            /\ UNCHANGED <<fs, log, made, environ, gen>>

NextNorm == SaveNormFixture \/ NormalizeImageInput \/ NormalizeImageOutput \/ OpaqueOnString

SpecNorm == InitNorm /\ [][NextNorm]_vars

RoundTripOfBitmap ==
    /\ call.op = "normalize_image_output"
    /\ call.target = "bitmap"
    /\ call.source.t = "Image"

NamesMissingPath ==
    /\ call.op \in {"normalize_image_input", "make_image_opaque"}
    /\ call.source.t = "str"
    /\ ~Exists(fs, call.source.v)

Luminance(color) == 299 * color[1] + 587 * color[2] + 114 * color[3]

\* luminance above the midpoint of 0..255
LuminanceHigh(color) == Luminance(color) > 127500

\* get_contrasting_color(color, prefer_dark): for a colour of high
\* luminance the dark anchor when prefer_dark and the light one otherwise;
\* for a colour of low luminance the choice is inverted.
get_contrasting_color(color, prefer_dark, dark, light) ==
    IF LuminanceHigh(color)
    THEN (IF prefer_dark THEN dark ELSE light)
    ELSE (IF prefer_dark THEN light ELSE dark)

(***************************************************************************)
(* SpecColor: get_contrasting_color is called once on a colour.            *)
(***************************************************************************)
ChannelValues == {0, 20, 128, 240, 255}
ColorArgs == ChannelValues \X ChannelValues \X ChannelValues

DarkAnchors == {<<0, 0, 0>>, <<20, 20, 20>>}
LightAnchors == {<<255, 255, 255>>, <<240, 240, 240>>}

InitColor ==
    /\ heap = <<>>
    /\ fs = EmptyFs
    /\ call \in {[op |-> "pending", color |-> c, prefer_dark |-> p] :
                    c \in ColorArgs, p \in BOOLEAN}
    /\ ret = NoRet
    /\ log = <<>>
    /\ ncalls = 0
    /\ made \in {[dark |-> d, light |-> l] : d \in DarkAnchors, l \in LightAnchors}
    /\ environ = NoEnviron
    /\ gen = NoGen

GetContrastingColor ==
    /\ call.op = "pending"
    /\ call' = [call EXCEPT !.op = "get_contrasting_color"]
    /\ ret' = ReturnedVal(get_contrasting_color(call.color, call.prefer_dark,
                                                made.dark, made.light))
    /\ ncalls' = ncalls + 1
    /\ UNCHANGED <<heap, fs, log, made, environ, gen>>

NextColor == GetContrastingColor

SpecColor == InitColor /\ [][NextColor]_vars

ChannelSum(color) == color[1] + color[2] + color[3]

\* C23: get_contrasting_color returns a genuinely darker or lighter colour:
\* for a colour of luminance above the midpoint and prefer_dark=True the
\* returned channels sum to strictly less than the input's, for a colour of
\* luminance below the midpoint and prefer_dark=False to strictly more, and
\* every returned channel lies in 0..255.
C23_GenuinelyDarkerOrLighter ==
    call.op = "get_contrasting_color" =>
        /\ (Luminance(call.color) > 127500 /\ call.prefer_dark)
              => ChannelSum(ret.val) < ChannelSum(call.color)
        /\ (Luminance(call.color) < 127500 /\ ~call.prefer_dark)
              => ChannelSum(ret.val) > ChannelSum(call.color)
        /\ \A i \in 1..3 : ret.val[i] \in 0..255

\* the paths written between two states, from the log of file writes
WrittenInStep ==
    {log'[i].arg : i \in {j \in (Len(log) + 1)..Len(log') : log'[j].ev = "write"}}

\* C24: generate_images never overwrites: no image, response or metadata
\* file of a generation is written onto a path that existed before that
\* generation (files of earlier runs and of earlier generations included).
C24_NoOverwrite == [][\A p \in WrittenInStep : ~Exists(fs, p)]_vars

(***************************************************************************)
(* scripts/download_figures.py: main(), after the arguments are parsed.    *)
(* The download and the two extractors are collaborators: each either      *)
(* returns or raises.  `gen` holds the position in main, the local         *)
(* temp_pdf_path and the exception that is propagating, if any; `made` is  *)
(* the set of files that were there when the script started.               *)
(***************************************************************************)
HttpPrefixed == {b[1] : b \in UrlBases}

\* args.input.startswith('http://') or args.input.startswith('https://')
IsHttpUrl(input) == Len(input) > 0 /\ input[1] \in HttpPrefixed

TempPdf == <<"tmp", Sep, "tmp1", Dot, "pdf">>
OutputFigure == <<"extracted_images", Sep, "figure001", Dot, "png">>

\* lines 95-132: which branch of the try block the input takes
main_dispatch(f, g) ==
    IF IsHttpUrl(g.input)
    THEN LET r == is_url_a_pdf(Str(g.input), g.head)
         IN IF r.ret.val.v
            THEN [gen |-> [g EXCEPT !.pc = "download"],
                  log |-> r.log \o <<Event("print", <<"Detected PDF URL">>)>>]
            ELSE [gen |-> [g EXCEPT !.pc = "extract_url"], log |-> r.log]
    ELSE IF Exists(f, g.input) /\ EndsWith(Lower(g.input), <<Dot, "pdf">>)
    THEN [gen |-> [g EXCEPT !.pc = "extract_pdf"], log |-> <<>>]
    ELSE [gen |-> [g EXCEPT !.pc = "finally", !.exc = "SystemExit"],
          log |-> <<Event("print", <<"Error: Input must be a valid URL or an existing PDF file">>),
                    Event("print", <<"Provided">>)>>]

\* lines 140-147 with the cleanup after the try block instead of in finally
main_finally_afterTry(f, g, unlink) ==
    IF g.exc = "" /\ g.temp_pdf_path.t = "str" /\ Exists(f, g.temp_pdf_path.v)
    THEN [fs |-> RemoveFile(f, g.temp_pdf_path.v),
          log |-> <<Event("unlink", g.temp_pdf_path.v),
                    Event("print", <<"Cleaned up temporary file">>)>>]
    ELSE [fs |-> f, log |-> <<>>]

\* lines 140-147: the finally block; unlink is how Path.unlink() ends
main_finally(f, g, unlink) ==
    IF g.temp_pdf_path.t = "str" /\ Exists(f, g.temp_pdf_path.v)
    THEN IF unlink = "ok"
         THEN [fs |-> RemoveFile(f, g.temp_pdf_path.v),
               log |-> <<Event("unlink", g.temp_pdf_path.v),
                         Event("print", <<"Cleaned up temporary file">>)>>]
         ELSE [fs |-> f,
               log |-> <<Event("unlink", g.temp_pdf_path.v),
                         Event("unlink raised", <<"OSError">>),
                         Event("print", <<"Warning: Could not delete temporary file">>)>>]
    ELSE [fs |-> f, log |-> <<>>]

(***************************************************************************)
(* SpecDownload: one run of the script on a URL or a local path.           *)
(***************************************************************************)
LocalPdf == <<"paper", Dot, "pdf">>
LocalTxt == <<"notes", Dot, "txt">>

ScriptInputs ==
    {b \o s : b \in UrlBases, s \in {<<>>, <<Dot, "pdf">>}}
    \cup {LocalPdf, <<"paper", Dot, "PDF">>, LocalTxt, <<"ftp://host/paper", Dot, "pdf">>}

ScriptHeads ==
    {HeadRaises("Timeout"), HeadResponse(Str(<<"application", "/", "pdf">>)),
     HeadResponse(Str(<<"text", "/", "html">>))}

LocalFiles ==
    {EmptyFs,
     WriteFile(WriteFile(EmptyFs, LocalPdf, File("pdf", <<>>)), LocalTxt, File("txt", <<>>))}

CallOutcomes == {"ok", "Exception", "SystemExit"}

InitDownload ==
    /\ heap = <<>>
    /\ fs \in LocalFiles
    /\ call = [op |-> "main"]
    /\ ret = NoRet
    /\ log = <<>>
    /\ ncalls = 0
    /\ made = DOMAIN fs
    /\ environ = NoEnviron
    /\ gen \in {[pc |-> "try", input |-> i, head |-> h, temp_pdf_path |-> NoneVal,
                 exc |-> "", saved_images |-> 0] :
                    i \in ScriptInputs, h \in ScriptHeads}

MainDispatch ==
    LET r == main_dispatch(fs, gen)
    IN  /\ gen.pc = "try"
        /\ gen' = r.gen
        /\ log' = log \o r.log
        /\ UNCHANGED <<heap, fs, call, ret, ncalls, made, environ>>

\* line 101: temp_pdf_path is bound only when the download returns
DownloadPdfFromUrl ==
    \E out \in CallOutcomes :
        /\ gen.pc = "download"
        /\ IF out = "ok"
           THEN /\ fs' = WriteFile(fs, TempPdf, File("pdf", gen.input))
                /\ gen' = [gen EXCEPT !.pc = "extract_pdf",
                                      !.temp_pdf_path = Str(TempPdf)]
           ELSE /\ fs' = fs
                /\ gen' = [gen EXCEPT !.pc = "finally", !.exc = out]
        /\ log' = Append(log, Event("download_pdf_from_url", gen.input))
        /\ UNCHANGED <<heap, call, ret, ncalls, made, environ>>

\* lines 102-108, 111-119 and 122-128, then lines 134-138
Extract(pc, ev) ==
    \E out \in CallOutcomes, n \in {0, 1} :
        /\ gen.pc = pc
        /\ IF out = "ok"
           THEN /\ fs' = IF n = 1 THEN WriteFile(fs, OutputFigure, File("png", <<>>))
                         ELSE fs
                /\ gen' = [gen EXCEPT !.pc = "finally", !.saved_images = n]
                /\ log' = log \o <<Event(ev, gen.input),
                                   Event("print", <<"Extraction complete!">>)>>
           ELSE /\ n = 0
                /\ fs' = fs
                /\ gen' = [gen EXCEPT !.pc = "finally", !.exc = out]
                /\ log' = Append(log, Event(ev, gen.input))
        /\ UNCHANGED <<heap, call, ret, ncalls, made, environ>>

ExtractImagesFromPdf == Extract("extract_pdf", "extract_images_from_pdf")

ExtractImagesFromUrl == Extract("extract_url", "extract_images_from_url")

MainFinally ==
    \E unlink \in {"ok", "raise"} :
        LET r == main_finally(fs, gen, unlink)
        IN  /\ gen.pc = "finally"
            /\ fs' = r.fs
            /\ log' = log \o r.log
            /\ gen' = [gen EXCEPT !.pc = "exit"]
            /\ ret' = IF gen.exc = "" THEN ReturnedVal(NoneVal) ELSE Raised(gen.exc)
            /\ UNCHANGED <<heap, call, ncalls, made, environ>>

NextDownload ==
    \/ MainDispatch
    \/ DownloadPdfFromUrl
    \/ ExtractImagesFromPdf
    \/ ExtractImagesFromUrl
    \/ MainFinally

SpecDownload == InitDownload /\ [][NextDownload]_vars

MainExited == call.op = "main" /\ gen.pc = "exit"
TempCreated == gen.temp_pdf_path.t = "str"
UnlinkEvents == {i \in 1..Len(log) : log[i].ev = "unlink"}
UnlinkRaised == \E i \in 1..Len(log) : log[i].ev = "unlink raised"

\* C25 as stated: when main exits after a PDF URL was downloaded to a
\* temporary file, that file is deleted, whether extraction succeeded or
\* raised; and nothing is deleted when no temporary PDF was created.
C25_TempDeletedOnEveryPath ==
    MainExited =>
        /\ TempCreated => ~Exists(fs, TempPdf)
        /\ ~TempCreated => UnlinkEvents = {}
        /\ made \subseteq DOMAIN fs

\* C25, amended: after a download, main always tries to delete the
\* temporary file before it exits, whether extraction succeeded or raised,
\* and the file is gone unless that deletion itself raised (then a warning
\* is printed and the file stays); nothing is deleted when no temporary PDF
\* was created.
C25_TempDeletionAttempted ==
    MainExited =>
        /\ TempCreated =>
              /\ \E i \in UnlinkEvents : log[i].arg = TempPdf
              /\ Exists(fs, TempPdf) <=> UnlinkRaised
        /\ ~TempCreated => UnlinkEvents = {}
        /\ made \subseteq DOMAIN fs

\* extraction from the downloaded PDF raised and the temporary file is gone
C25_Witness ==
    /\ MainExited
    /\ TempCreated
    /\ ret.kind = "raise"
    /\ ret.exc = "Exception"
    /\ ~Exists(fs, TempPdf)

LoadRaises == call'.op = "load_env_variables" /\ ret'.kind = "raise"

\* C26: load_env_variables is all-or-nothing: when a call raises (a missing
\* file, or a line that does not split into exactly two parts at any
\* position in the file), the process environment after the call is exactly
\* what it was before the call.
C26_AllOrNothing == [][LoadRaises => environ' = environ]_vars

\* a call with update_environ=True raised on the second line of a file
\* whose first line assigns K1, and K1 is not in the environment
C26_Witness ==
    /\ call.op = "load_env_variables"
    /\ call.update_environ
    /\ call.env_file = Str(DotEnvPath)
    /\ Len(fs[DotEnvPath]) >= 2
    /\ fs[DotEnvPath][1] = AssignK1
    /\ fs[DotEnvPath][2] = MalformedLine
    /\ ret.kind = "raise"
    /\ ret.exc = "ValueError"
    /\ environ = EmptyMap

ConvertRaises == call'.op = "convert_image" /\ ret'.kind = "raise"

\* C27: convert_image deletes the original only after the converted file
\* has been written: whenever a call raises (the unsupported-extension
\* ValueError, opening, flattening or saving), the source file still exists
\* and holds what it held before the call, with delete_original True or
\* False.
C27_SourceKeptOnFailure ==
    [][ConvertRaises =>
          /\ Exists(fs', call'.source_path)
          /\ fs'[call'.source_path] = fs[call'.source_path]]_vars

\* the levels within the search range at which the searched name exists
MatchingLevels ==
    {i \in 0..(call.max_parents - 1) : PathExists(fs, Join(Ups(i), call.env_file.v))}

NearestMatch ==
    Join(Ups(CHOOSE i \in MatchingLevels : \A j \in MatchingLevels : i <= j),
         call.env_file.v)

\* C28: search_for_env_file prefers the nearest directory: when the
\* searched file exists at one or more levels within the search range, the
\* returned path is the one at the level closest to the current working
\* directory.
C28_NearestLevelWins ==
    (/\ call.op = "search_for_env_file"
     /\ call.env_file.t = "str"
     /\ MatchingLevels # {}) =>
        /\ ret.kind = "ok"
        /\ ret.val = Str(IF call.abspath THEN Abspath(NearestMatch) ELSE NearestMatch)

\* one pass of the inner loop of generate_images, and what it logged
GenerationStep == gen.pc = "image" /\ gen' # gen
NewEvents == SubSeq(log', Len(log) + 1, Len(log'))
EndpointReturned == \A j \in DOMAIN NewEvents : NewEvents[j].ev # "image_generation raised"
WritesOf(suffix) ==
    {NewEvents[j].arg : j \in {k \in DOMAIN NewEvents :
                                  /\ NewEvents[k].ev = "write"
                                  /\ EndsWith(NewEvents[k].arg, suffix)}}
ResponseWrites == WritesOf(<<"response", Dot, "json">>)
ImageWrites == WritesOf(<<Dot, "png">>)
MetadataWrites == WritesOf(<<"metadata", Dot, "json">>)
PathAppended == gen'.image_paths # gen.image_paths
LoopContinues ==
    \/ gen'.pc = "image" /\ gen'.p = gen.p /\ gen'.image_index = gen.image_index + 1
    \/ gen'.pc = "prompt" /\ gen'.p = gen.p + 1

\* the return of generate_images
ReturnStep == gen.pc = "prompt" /\ gen'.pc = "done"

\* C29 as stated: in each generation the raw response JSON is written
\* before extraction is attempted; a generation that fails appends no
\* path, keeps its response file and lets the loop go on; the list returned
\* with return_images=True holds one image per generation whose image bytes
\* were written, and the call returns None with return_images=False.
C29_ResponseFirstOneImagePerWrite ==
    [][/\ (GenerationStep /\ EndpointReturned) =>
            /\ NewEvents[2].ev = "write"
            /\ NewEvents[2].arg \in ResponseWrites
            /\ fs'[NewEvents[2].arg].kind = "json"
            /\ LoopContinues
            /\ PathAppended <=> ImageWrites # {}
            /\ PathAppended => gen'.image_paths = Append(gen.image_paths, CHOOSE p \in ImageWrites : TRUE)
       /\ ReturnStep =>
            IF gen.return_images
            THEN /\ ret'.kind = "ok"
                 /\ ret'.val.t = "list"
                 /\ Len(ret'.val.v) = Len(gen.image_paths)
            ELSE ret' = ReturnedVal(NoneVal)]_vars

\* C29, amended: in each generation whose endpoint call returns, writing
\* the response (as JSON, or in its string form when serialising fails) is
\* attempted before extraction; a response file that was written is there
\* after the generation; the loop goes on whatever happened; a path is
\* appended exactly when both the image and its metadata were written.  With
\* return_images=True the call returns one opened image per appended path,
\* or raises when a recorded file does not open as an image; it returns None
\* with return_images=False.
C29_ResponseAttemptedOneImagePerSave ==
    [][/\ (GenerationStep /\ EndpointReturned) =>
            /\ \/ NewEvents[2].ev = "write" /\ NewEvents[2].arg \in ResponseWrites
               \/ NewEvents[2] = Event("print", <<"Warning: Could not save full response to JSON">>)
            /\ \A p \in ResponseWrites :
                   Exists(fs', p) /\ fs'[p].kind \in {"json", "response_str"}
            /\ LoopContinues
            /\ PathAppended <=> (ImageWrites # {} /\ MetadataWrites # {})
            /\ PathAppended => gen'.image_paths = Append(gen.image_paths, CHOOSE p \in ImageWrites : TRUE)
       /\ ReturnStep =>
            IF gen.return_images
            THEN \/ /\ ret'.kind = "ok"
                    /\ ret'.val.t = "list"
                    /\ Len(ret'.val.v) = Len(gen.image_paths)
                    /\ \A j \in DOMAIN ret'.val.v :
                           /\ ret'.val.v[j].t = "Image"
                           /\ heap'[ret'.val.v[j].v].px = <<(<<fs[gen.image_paths[j]].data[2]>>)>>
                 \/ /\ ret'.kind = "raise"
                    /\ ret'.exc = "UnidentifiedImageError"
                    /\ \E j \in DOMAIN gen.image_paths : fs[gen.image_paths[j]].data[1] # Magic
            ELSE ret' = ReturnedVal(NoneVal)]_vars

\* a call with return_images=True returned two images after three
\* generations, one of which failed
C29_Witness ==
    /\ gen.pc = "done"
    /\ gen.return_images
    /\ Len(gen.prompts) * gen.n_images >= 3
    /\ ret.kind = "ok"
    /\ ret.val.t = "list"
    /\ Len(ret.val.v) = 2
    /\ \E j \in DOMAIN log : log[j] = Event("print", <<"Error: Unable to parse image from response">>)

ExtractCalled == call.op = "_extract_image_data"

NoUsableSource ==
    call.response.t # "dict" \/ UsableSources(call.response) = {}

\* C30: every normal return of _extract_image_data carries metadata whose
\* extraction_method names a source, whose original_format is 'base64' or
\* 'url', and which has a source_url entry exactly when original_format is
\* 'url'; whenever no source is usable the function raises ValueError
\* instead of returning.
C30_MetadataComplete ==
    ExtractCalled =>
        /\ ret.kind = "ok" =>
              LET metadata == ret.val.metadata
              IN  /\ {"extraction_method", "original_format"} \subseteq DOMAIN metadata
                  /\ \E j \in DOMAIN SourceOrder :
                         metadata.extraction_method = SourceOrder[j]
                  /\ metadata.original_format \in {"base64", "url"}
                  /\ "source_url" \in DOMAIN metadata <=> metadata.original_format = "url"
        /\ NoUsableSource => ret.kind = "raise" /\ ret.exc = "ValueError"

\* an image was fetched from the url of the first data item
C30_Witness ==
    /\ ExtractCalled
    /\ ret.kind = "ok"
    /\ ret.val.metadata.original_format = "url"
    /\ ret.val.metadata.extraction_method = "data[0].url"
    /\ ret.val.metadata.source_url = Url1

=============================================================================
